---------------------------- MODULE Spec2Model ----------------------------
(***************************************************************************)
(* A model of the colour-sort puzzle engine of sort-puzzle-solver-bot:     *)
(* Flask (one container), Puzzle (a layout of containers) and the solver   *)
(* (solveUsingPriorityQueueOrStack, its two disciplines, and solve).       *)
(*                                                                         *)
(* A flask is the sequence of its layers, bottom first; a layout is the    *)
(* sequence of its flasks (Puzzle._flasks).  A thrown Error is modelled as *)
(* the "error" field of the value an operation yields.                     *)
(***************************************************************************)
EXTENDS Integers, Sequences, FiniteSets, TLC

(***************************************************************************)
(* Program constant and the bounds of the model.                           *)
(***************************************************************************)
\* FlaskCapacity: four layers fill a flask.
FlaskCapacity == 4

\* Colours are 0 .. NumColors-1.
NumColors == 2

\* Most flasks of a layout built by the Construct action.
MaxFlasks == 2

\* Most layers, over all flasks, of a layout built by the Construct action: a
\* full flask and one layer more, the fewest that give a full destination a
\* non-empty source, and a top run more room than the destination has.
MaxLayers == FlaskCapacity + 1

\* Most layers, over all flasks, of a layout whose canonical string is compared.
MaxCanonLayers == 2

Colors == 0 .. (NumColors - 1)

Min(a, b) == IF a < b THEN a ELSE b

Last(s) == s[Len(s)]

Front(s) == SubSeq(s, 1, Len(s) - 1)

\* All sequences over S of length at most n.
SeqsUpTo(S, n) == UNION { [1..k -> S] : k \in 0..n }

RECURSIVE SumLen(_)
SumLen(m) == IF m = << >> THEN 0 ELSE Len(m[1]) + SumLen(Tail(m))

(***************************************************************************)
(* Flask                                                                   *)
(***************************************************************************)
\* A mutant of Flask_constructor: the layers above the capacity are left out.
Flask_constructor_Truncating(layers) ==
  [error |-> "none", layers |-> SubSeq(layers, 1, Min(Len(layers), FlaskCapacity))]

\* new Flask(layers): throws when more layers than FlaskCapacity are given.
Flask_constructor(layers) ==
  IF Len(layers) > FlaskCapacity
    THEN [error |-> "limit", layers |-> << >>]
    ELSE [error |-> "none", layers |-> layers]

Flask_isEmpty(f) == Len(f) = 0

Flask_isFull(f) == Len(f) = FlaskCapacity

\* A mutant of Flask_isInFinalState: a flask of one colour need not be full.
Flask_isInFinalState_Mono(f) ==
  Flask_isEmpty(f) \/ (\A k \in 1..Len(f) : f[k] = f[1])

Flask_isInFinalState(f) ==
  Flask_isEmpty(f) \/ (Flask_isFull(f) /\ \A k \in 1..Len(f) : f[k] = f[1])

\* A mutant of Flask_isTransfusionValid: the destination's fullness is not looked at.
Flask_isTransfusionValid_NoFullCheck(s, d) ==
  IF Flask_isEmpty(s) THEN FALSE
  ELSE IF ~Flask_isEmpty(d) /\ Last(s) # Last(d) THEN FALSE
  ELSE TRUE

Flask_isTransfusionValid(s, d) ==
  IF Flask_isEmpty(s) THEN FALSE
  ELSE IF Flask_isFull(d) THEN FALSE
  ELSE IF ~Flask_isEmpty(d) /\ Last(s) # Last(d) THEN FALSE
  ELSE TRUE

\* The counting loop of Flask.transfuse: layers, from index i downwards, that
\* have the colour of the top layer.
RECURSIVE CountSameColor(_, _)
CountSameColor(s, i) ==
  IF i < 1 THEN 0
  ELSE IF s[i] = Last(s) THEN 1 + CountSameColor(s, i - 1)
  ELSE 0

\* A mutant of layersWithSameColor: only the top layer is counted.
layersWithSameColor_One(s) == 1

layersWithSameColor(s) == CountSameColor(s, Len(s))

\* A mutant of PourLoop: the popped layer is not pushed.
RECURSIVE PourLoop_Spill(_, _, _, _)
PourLoop_Spill(fl, s, d, n) ==
  IF n = 0 THEN fl
  ELSE PourLoop_Spill([fl EXCEPT ![s] = Front(fl[s])], s, d, n - 1)

\* The moving loop of Flask.transfuse, n times
\*   destinationFlask._layers.push(sourceFlask._layers.pop())
\* on the flask objects s and d of the object store fl (s = d is one object).
RECURSIVE PourLoop(_, _, _, _)
PourLoop(fl, s, d, n) ==
  IF n = 0 THEN fl
  ELSE LET top    == Last(fl[s])
           popped == [fl EXCEPT ![s] = Front(fl[s])]
           pushed == [popped EXCEPT ![d] = Append(popped[d], top)]
       IN  PourLoop(pushed, s, d, n - 1)

\* A mutant of Flask_transfuse: the free room of the destination is ignored.
Flask_transfuse_NoCapacity(fl, s, d) ==
  IF ~Flask_isTransfusionValid(fl[s], fl[d])
    THEN [error |-> "invalid", flasks |-> fl]
    ELSE [error |-> "none",
          flasks |-> PourLoop(fl, s, d, layersWithSameColor(fl[s]))]

\* A mutant of Flask_transfuse: no validity check before moving.
Flask_transfuse_NoCheck(fl, s, d) ==
  IF Flask_isEmpty(fl[s])
    THEN [error |-> "none", flasks |-> fl]
    ELSE [error |-> "none",
          flasks |-> PourLoop(fl, s, d,
                       Min(FlaskCapacity - Len(fl[d]), layersWithSameColor(fl[s])))]

\* Flask.transfuse(sourceFlask, destinationFlask) on flask objects s and d of fl.
Flask_transfuse(fl, s, d) ==
  IF ~Flask_isTransfusionValid(fl[s], fl[d])
    THEN [error |-> "invalid", flasks |-> fl]
    ELSE LET avaliableCapacity == FlaskCapacity - Len(fl[d])
         IN  [error |-> "none",
              flasks |-> PourLoop(fl, s, d,
                           Min(avaliableCapacity, layersWithSameColor(fl[s])))]

(***************************************************************************)
(* Puzzle                                                                  *)
(***************************************************************************)
\* new Puzzle(layersMatrix): one Flask per row; the first failing row throws.
Puzzle_constructor(layersMatrix) ==
  IF \E k \in 1..Len(layersMatrix) : Flask_constructor(layersMatrix[k]).error # "none"
    THEN [error |-> "limit", flasks |-> << >>]
    ELSE [error |-> "none",
          flasks |-> [k \in 1..Len(layersMatrix) |->
                        Flask_constructor(layersMatrix[k]).layers]]

\* Indices are those of the source, 0 .. N-1.
OutOfBounds(fl, i, j) == i < 0 \/ i >= Len(fl) \/ j < 0 \/ j >= Len(fl)

\* A mutant of Puzzle_isTransfusionValid: no bounds check (an absent flask
\* reads as an empty one) and no same-index check.
Puzzle_isTransfusionValid_Unchecked(fl, i, j) ==
  IF OutOfBounds(fl, i, j)
    THEN [error |-> "none", value |-> FALSE]
    ELSE [error |-> "none",
          value |-> Flask_isTransfusionValid(fl[i + 1], fl[j + 1])]

\* A mutant of Puzzle_isTransfusionValid: every pair in range is accepted.
Puzzle_isTransfusionValid_Always(fl, i, j) ==
  IF OutOfBounds(fl, i, j)
    THEN [error |-> "bounds", value |-> FALSE]
    ELSE [error |-> "none", value |-> TRUE]

Puzzle_isTransfusionValid(fl, i, j) ==
  IF OutOfBounds(fl, i, j)
    THEN [error |-> "bounds", value |-> FALSE]
    ELSE IF i = j
      THEN [error |-> "none", value |-> FALSE]
      ELSE [error |-> "none",
            value |-> Flask_isTransfusionValid(fl[i + 1], fl[j + 1])]

Puzzle_transfuse(fl, i, j) ==
  IF OutOfBounds(fl, i, j)
    THEN [error |-> "bounds", flasks |-> fl]
    ELSE Flask_transfuse(fl, i + 1, j + 1)

Puzzle_isSolved(fl) == ~ \E k \in 1..Len(fl) : ~Flask_isInFinalState(fl[k])

(***************************************************************************)
(* Strings.  A string is the sequence of its UTF-16 code units: a digit d  *)
(* is 48 + d, the comma is 44 and the line feed is 10.                     *)
(***************************************************************************)
\* String(n) for a natural number n: its decimal digits.
RECURSIVE NumberToString(_)
NumberToString(n) ==
  IF n < 10 THEN << 48 + n >>
  ELSE NumberToString(n \div 10) \o << 48 + (n % 10) >>

\* Array.prototype.join of the strings strs with the separator code unit sep.
RECURSIVE Join(_, _)
Join(strs, sep) ==
  IF Len(strs) = 0 THEN << >>
  ELSE IF Len(strs) = 1 THEN strs[1]
  ELSE strs[1] \o << sep >> \o Join(Tail(strs), sep)

\* Flask.toString: the layers joined by commas.
Flask_toString(f) == Join([k \in 1..Len(f) |-> NumberToString(f[k])], 44)

\* a < b in the order of Array.prototype.sort without a comparator: code unit by
\* code unit, a proper prefix first.
RECURSIVE StringLess(_, _)
StringLess(a, b) ==
  IF Len(b) = 0 THEN FALSE
  ELSE IF Len(a) = 0 THEN TRUE
  ELSE IF a[1] # b[1] THEN a[1] < b[1]
  ELSE StringLess(Tail(a), Tail(b))

\* x put into the sorted sequence of strings sorted, after the strings not above it.
RECURSIVE InsertSorted(_, _)
InsertSorted(sorted, x) ==
  IF Len(sorted) = 0 THEN << x >>
  ELSE IF StringLess(x, sorted[1]) THEN << x >> \o sorted
  ELSE << sorted[1] >> \o InsertSorted(Tail(sorted), x)

\* Array.prototype.sort() of an array of strings.
RECURSIVE SortStrings(_)
SortStrings(strs) ==
  IF Len(strs) = 0 THEN << >>
  ELSE InsertSorted(SortStrings(Tail(strs)), strs[1])

\* A mutant of Puzzle_toStringWithSort: the flasks are not sorted.
Puzzle_toStringWithSort_NoSort(fl) ==
  Join([k \in 1..Len(fl) |-> Flask_toString(fl[k])], 10)

\* Puzzle.toStringWithSort: the flasks' strings, sorted, joined by line feeds.
Puzzle_toStringWithSort(fl) ==
  Join(SortStrings([k \in 1..Len(fl) |-> Flask_toString(fl[k])]), 10)

\* A mutant of Fingerprint: the strings of the flasks are joined unsorted.
Fingerprint_Unsorted(fl) ==
  Join([k \in 1..Len(fl) |-> Flask_toString(fl[k])], 10)

\* The fingerprint kept in the visited set: the md5 digest of toStringWithSort.
\* The digest is taken to be free of collisions, so the string stands for it.
Fingerprint(fl) == Puzzle_toStringWithSort(fl)

(***************************************************************************)
(* The solver                                                              *)
(***************************************************************************)
Fastest == "fastest"

Balanced == "balanced"

Shortest == "shortest"

SolvingMethod == { Fastest, Balanced, Shortest }

\* The fewest and the most empty flasks solve adds to the puzzle.
DefaultEmptyFlasksNumber == 0

MaxEmptyFlasksNumber == 2

\* A mutant of calculateSolutionMetric: the inner loop starts at the third layer.
RECURSIVE calculateSolutionMetric_FromThird(_)
calculateSolutionMetric_FromThird(fl) ==
  IF fl = << >> THEN 0
  ELSE Cardinality({ k \in 3..Len(fl[1]) : fl[1][k] = fl[1][k - 1] })
         + calculateSolutionMetric_FromThird(Tail(fl))

\* calculateSolutionMetric: the layers that lie on a layer of their own colour.
RECURSIVE calculateSolutionMetric(_)
calculateSolutionMetric(fl) ==
  IF fl = << >> THEN 0
  ELSE Cardinality({ k \in 2..Len(fl[1]) : fl[1][k] = fl[1][k - 1] })
         + calculateSolutionMetric(Tail(fl))

\* A mutant of comparator: among equal numbers of transfusions the lower metric
\* comes first.
comparator_LowMetricFirst(a, b) ==
  IF Len(a.transfusions) # Len(b.transfusions)
    THEN Len(a.transfusions) - Len(b.transfusions)
    ELSE a.metric - b.metric

\* The comparator of the priority queue: fewer transfusions first, then the
\* higher metric.
comparator(a, b) ==
  IF Len(a.transfusions) # Len(b.transfusions)
    THEN Len(a.transfusions) - Len(b.transfusions)
    ELSE b.metric - a.metric

\* The priority queue is the binary heap of js-priority-queue, an array whose
\* element at (0-based) position p has its children at 2p+1 and 2p+2.
Swap(data, p, q) == [data EXCEPT ![p + 1] = data[q + 1], ![q + 1] = data[p + 1]]

RECURSIVE bubbleUp(_, _)
bubbleUp(data, pos) ==
  IF pos > 0
    THEN LET parent == (pos - 1) \div 2
         IN  IF comparator(data[pos + 1], data[parent + 1]) < 0
               THEN bubbleUp(Swap(data, pos, parent), parent)
               ELSE data
    ELSE data

RECURSIVE bubbleDown(_, _)
bubbleDown(data, pos) ==
  LET last  == Len(data) - 1
      left  == 2 * pos + 1
      right == left + 1
      m1    == IF left <= last /\ comparator(data[left + 1], data[pos + 1]) < 0
                 THEN left ELSE pos
      m2    == IF right <= last /\ comparator(data[right + 1], data[m1 + 1]) < 0
                 THEN right ELSE m1
  IN  IF m2 # pos THEN bubbleDown(Swap(data, pos, m2), m2) ELSE data

\* queue.queue(value)
PriorityQueue_queue(data, value) == bubbleUp(Append(data, value), Len(data))

\* queue.dequeue() of a non-empty queue: the root, and the heap without it.
PriorityQueue_dequeue(data) ==
  LET last   == Last(data)
      popped == Front(data)
  IN  [step |-> data[1],
       rest |-> IF Len(popped) > 0
                  THEN bubbleDown([popped EXCEPT ![1] = last], 0)
                  ELSE popped]

\* A mutant of getStep: the stack gives its oldest step (shift).
getStep_Shift(discipline, stackOrQueue) ==
  IF discipline = "stack"
    THEN [step |-> Head(stackOrQueue), rest |-> Tail(stackOrQueue)]
    ELSE PriorityQueue_dequeue(stackOrQueue)

\* stackOrQueue[getStep]() for 'pop' (stack) and 'dequeue' (queue).
getStep(discipline, stackOrQueue) ==
  IF discipline = "stack"
    THEN [step |-> Last(stackOrQueue), rest |-> Front(stackOrQueue)]
    ELSE PriorityQueue_dequeue(stackOrQueue)

\* stackOrQueue[addStep](step) for 'push' (stack) and 'queue' (queue).
addStep(discipline, stackOrQueue, step) ==
  IF discipline = "stack"
    THEN Append(stackOrQueue, step)
    ELSE PriorityQueue_queue(stackOrQueue, step)

\* The first step of a search on the puzzle fl.
initialStep(discipline, fl) ==
  IF discipline = "stack"
    THEN [puzzle |-> fl, transfusions |-> << >>]
    ELSE [puzzle |-> fl, metric |-> calculateSolutionMetric(fl),
          transfusions |-> << >>]

\* A mutant of initializeNextStep: the pair is recorded the wrong way round.
initializeNextStep_Reversed(discipline, step, state, nextTransfusion) ==
  LET t == Append(step.transfusions, << nextTransfusion[2], nextTransfusion[1] >>)
  IN  IF discipline = "stack"
        THEN [puzzle |-> state, transfusions |-> t]
        ELSE [puzzle |-> state, metric |-> calculateSolutionMetric(state),
              transfusions |-> t]

\* A mutant of initializeNextStep: the pair is recorded counting from one.
initializeNextStep_FromOne(discipline, step, state, nextTransfusion) ==
  LET t == Append(step.transfusions,
                  << nextTransfusion[1] + 1, nextTransfusion[2] + 1 >>)
  IN  IF discipline = "stack"
        THEN [puzzle |-> state, transfusions |-> t]
        ELSE [puzzle |-> state, metric |-> calculateSolutionMetric(state),
              transfusions |-> t]

\* A mutant of initializeNextStep: the transfusions of the step are forgotten.
initializeNextStep_Forgets(discipline, step, state, nextTransfusion) ==
  IF discipline = "stack"
    THEN [puzzle |-> state, transfusions |-> << nextTransfusion >>]
    ELSE [puzzle |-> state, metric |-> calculateSolutionMetric(state),
          transfusions |-> << nextTransfusion >>]

\* initializeNextStep of solveUsingStack and of solveUsingPriorityQueue.
initializeNextStep(discipline, step, state, nextTransfusion) ==
  IF discipline = "stack"
    THEN [puzzle |-> state,
          transfusions |-> Append(step.transfusions, nextTransfusion)]
    ELSE [puzzle |-> state, metric |-> calculateSolutionMetric(state),
          transfusions |-> Append(step.transfusions, nextTransfusion)]

\* A mutant of preliminaryFilter: steps of three transfusions or more are
\* dropped, by the stack as well.
preliminaryFilter_Shallow(discipline, maxAllowedMetricDelta, metricMap, step) ==
  [pass |-> Len(step.transfusions) < 3, metricMap |-> metricMap]

\* A mutant of preliminaryFilter: the entry of metricMap made by the first step
\* of a number of transfusions is never raised.
preliminaryFilter_KeepsFirst(discipline, maxAllowedMetricDelta, metricMap, step) ==
  IF discipline = "stack"
    THEN [pass |-> TRUE, metricMap |-> metricMap]
    ELSE LET n == Len(step.transfusions)
         IN  IF n \in DOMAIN metricMap
               THEN [pass |-> metricMap[n] <= step.metric + maxAllowedMetricDelta,
                     metricMap |-> metricMap]
               ELSE [pass |-> TRUE,
                     metricMap |-> [d \in (DOMAIN metricMap) \cup {n} |->
                                      IF d = n THEN step.metric ELSE metricMap[d]]]

\* A mutant of preliminaryFilter: the queue's filter notes the metric and lets
\* every step pass.
preliminaryFilter_NotesOnly(discipline, maxAllowedMetricDelta, metricMap, step) ==
  IF discipline = "stack"
    THEN [pass |-> TRUE, metricMap |-> metricMap]
    ELSE LET n == Len(step.transfusions)
         IN  [pass |-> TRUE,
              metricMap |-> [d \in (DOMAIN metricMap) \cup {n} |->
                               IF d = n /\ (n \notin DOMAIN metricMap
                                            \/ metricMap[n] < step.metric)
                                 THEN step.metric ELSE metricMap[d]]]

\* preliminaryFilter: of solveUsingStack, always true; of solveUsingPriorityQueue,
\* the test against, and the update of, metricMap (a function from the numbers
\* of transfusions seen so far to the highest metric seen for each).
preliminaryFilter(discipline, maxAllowedMetricDelta, metricMap, step) ==
  IF discipline = "stack"
    THEN [pass |-> TRUE, metricMap |-> metricMap]
    ELSE LET n == Len(step.transfusions)
         IN  IF n \in DOMAIN metricMap
               THEN IF metricMap[n] > step.metric + maxAllowedMetricDelta
                      THEN [pass |-> FALSE, metricMap |-> metricMap]
                      ELSE IF metricMap[n] < step.metric
                        THEN [pass |-> TRUE,
                              metricMap |-> [metricMap EXCEPT ![n] = step.metric]]
                        ELSE [pass |-> TRUE, metricMap |-> metricMap]
               ELSE [pass |-> TRUE,
                     metricMap |-> [d \in (DOMAIN metricMap) \cup {n} |->
                                      IF d = n THEN step.metric ELSE metricMap[d]]]

\* A mutant of expandStep: a solved child is treated as any other child, and
\* the search goes on.
RECURSIVE expandStep_PastSolved(_, _, _, _, _)
expandStep_PastSolved(discipline, maxAllowedMetricDelta, step, k, acc) ==
  LET n == Len(step.puzzle)
  IN  IF k >= n * n \/ acc.returned \/ acc.error # "none" THEN acc
      ELSE
        LET i == k \div n
            j == k % n
            valid == Puzzle_isTransfusionValid(step.puzzle, i, j)
        IN  IF valid.error # "none" THEN [acc EXCEPT !.error = valid.error]
            ELSE IF ~valid.value
              THEN expandStep_PastSolved(discipline, maxAllowedMetricDelta, step, k + 1, acc)
            ELSE
              LET state == Puzzle_transfuse(step.puzzle, i, j)
              IN  IF state.error # "none" THEN [acc EXCEPT !.error = state.error]
                  ELSE
                    LET nextFingerprint == Fingerprint(state.flasks)
                    IN  IF nextFingerprint \in acc.visited
                          THEN expandStep_PastSolved(discipline, maxAllowedMetricDelta,
                                          step, k + 1, acc)
                        ELSE
                          LET nextStep == initializeNextStep(discipline, step,
                                                             state.flasks, << i, j >>)
                              seen == [acc EXCEPT !.visited = @ \cup {nextFingerprint}]
                          IN  IF FALSE
                                THEN seen
                                ELSE
                                  LET filter == preliminaryFilter(discipline,
                                                  maxAllowedMetricDelta,
                                                  seen.metricMap, nextStep)
                                  IN  expandStep_PastSolved(discipline, maxAllowedMetricDelta,
                                        step, k + 1,
                                        [seen EXCEPT
                                           !.metricMap = filter.metricMap,
                                           !.stackOrQueue =
                                              IF filter.pass
                                                THEN addStep(discipline, @, nextStep)
                                                ELSE @])

\* The two nested for loops of solveUsingPriorityQueueOrStack on one step, from
\* the k-th pair (i, j) = (k div N, k mod N) on.  acc carries the visited set, the
\* stack or queue, metricMap, and how the loops ended: by a return (returned,
\* solution) or by a thrown Error (error).
RECURSIVE expandStep(_, _, _, _, _)
expandStep(discipline, maxAllowedMetricDelta, step, k, acc) ==
  LET n == Len(step.puzzle)
  IN  IF k >= n * n \/ acc.returned \/ acc.error # "none" THEN acc
      ELSE
        LET i == k \div n
            j == k % n
            valid == Puzzle_isTransfusionValid(step.puzzle, i, j)
        IN  IF valid.error # "none" THEN [acc EXCEPT !.error = valid.error]
            ELSE IF ~valid.value
              THEN expandStep(discipline, maxAllowedMetricDelta, step, k + 1, acc)
            ELSE
              LET state == Puzzle_transfuse(step.puzzle, i, j)
              IN  IF state.error # "none" THEN [acc EXCEPT !.error = state.error]
                  ELSE
                    LET nextFingerprint == Fingerprint(state.flasks)
                    IN  IF nextFingerprint \in acc.visited
                          THEN expandStep(discipline, maxAllowedMetricDelta,
                                          step, k + 1, acc)
                        ELSE
                          LET nextStep == initializeNextStep(discipline, step,
                                                             state.flasks, << i, j >>)
                              seen == [acc EXCEPT !.visited = @ \cup {nextFingerprint}]
                          IN  IF Puzzle_isSolved(nextStep.puzzle)
                                THEN [seen EXCEPT !.returned = TRUE,
                                                  !.solution = nextStep.transfusions]
                                ELSE
                                  LET filter == preliminaryFilter(discipline,
                                                  maxAllowedMetricDelta,
                                                  seen.metricMap, nextStep)
                                  IN  expandStep(discipline, maxAllowedMetricDelta,
                                        step, k + 1,
                                        [seen EXCEPT
                                           !.metricMap = filter.metricMap,
                                           !.stackOrQueue =
                                              IF filter.pass
                                                THEN addStep(discipline, @, nextStep)
                                                ELSE @])

\* One pass of the while loop: a step is taken off the stack or queue and
\* filtered, and, when it passes, its transfusions are tried.
searchPass(discipline, maxAllowedMetricDelta, stackOrQueue, visited, metricMap) ==
  LET got    == getStep(discipline, stackOrQueue)
      filter == preliminaryFilter(discipline, maxAllowedMetricDelta,
                                  metricMap, got.step)
      acc0   == [visited |-> visited, stackOrQueue |-> got.rest,
                 metricMap |-> filter.metricMap, returned |-> FALSE,
                 solution |-> << >>, error |-> "none"]
  IN  IF filter.pass
        THEN expandStep(discipline, maxAllowedMetricDelta, got.step, 0, acc0)
        ELSE acc0

\* A mutant of searchFor: 'shortest' runs the stack search and 'fastest' the
\* queue search.
searchFor_Crossed(solvingMethod) ==
  IF solvingMethod = Fastest
    THEN [discipline |-> "queue", maxAllowedMetricDelta |-> 1]
  ELSE IF solvingMethod = Balanced
    THEN [discipline |-> "queue", maxAllowedMetricDelta |-> 0]
  ELSE [discipline |-> "stack", maxAllowedMetricDelta |-> 0]

\* The switch of solve: the search and the tolerance a solving method runs.
\* (The stack search takes no tolerance; 0 stands for none.)
searchFor(solvingMethod) ==
  IF solvingMethod = Shortest
    THEN [discipline |-> "queue", maxAllowedMetricDelta |-> 1]
  ELSE IF solvingMethod = Balanced
    THEN [discipline |-> "queue", maxAllowedMetricDelta |-> 0]
  ELSE [discipline |-> "stack", maxAllowedMetricDelta |-> 0]

\* layersMatrixWithEmptyFlasks: the rows followed by n empty rows.
layersMatrixWithEmptyFlasks(layersMatrix, n) ==
  layersMatrix \o [k \in 1..n |-> << >>]

(***************************************************************************)
(* State: the puzzle under test and the last call made on it.              *)
(***************************************************************************)
VARIABLES
  flasks,   \* Puzzle._flasks of the puzzle under test
  call,     \* the last call: its name, arguments, outcome and the layout before it
  pc,                    \* where solve stands: "idle", "loop", "search", "done", "error"
  layersMatrix,          \* solve's argument layersMatrix
  solvingMethod,         \* solve's argument solvingMethod
  emptyFlasks,           \* solve's loop variable i, the number of empty flasks added
  discipline,            \* the search under way: "stack" or "queue"
  maxAllowedMetricDelta, \* the tolerance of the search under way
  stackOrQueue,          \* the stack, or the heap array of the priority queue
  visited,               \* the fingerprints of the layouts seen by the search
  metricMap,             \* solveUsingPriorityQueue's metricMap
  solution,              \* solve's variable solution
  thrown,                \* the Error that ended solve, or "none"
  tried,                 \* history: the searches solve has run, in order
  held,                  \* history: the steps put on the stack or queue by this search
  removed,               \* history: the steps taken off the stack or queue by this search
  clock,                 \* history: the number of steps solve has taken
  heap,     \* the arrays of the object store: heap[a] is the content of array a
  refs,     \* the references a caller of Puzzle holds into heap, and its last call
  session,  \* ctx.session of the bot's context
  bot,      \* the replaceLastMessage call under way and the calls it has made
  handler   \* the calls of the solve action handler: handler[r] is the position
            \* and the timers of call r, and the puzzle data of the session

puzzleVars == << flasks, call >>

storeVars == << heap, refs >>

solverVars ==
  << pc, layersMatrix, solvingMethod, emptyFlasks, discipline, maxAllowedMetricDelta,
     stackOrQueue, visited, metricMap, solution, thrown, tried, held, removed,
     clock >>

botVars == << session, bot, handler >>

vars == << puzzleVars, solverVars, storeVars, botVars >>

\* The value of a variable that holds undefined.
Undefined == [defined |-> FALSE, transfusions |-> << >>]

\* A map with no key.
EmptyMap == [d \in {} |-> 0]

\* No solve call is under way.
SolverIdle ==
  /\ pc = "idle"
  /\ layersMatrix = << >>
  /\ solvingMethod = Fastest
  /\ emptyFlasks = 0
  /\ discipline = "stack"
  /\ maxAllowedMetricDelta = 0
  /\ stackOrQueue = << >>
  /\ visited = {}
  /\ metricMap = EmptyMap
  /\ solution = Undefined
  /\ thrown = "none"
  /\ tried = << >>
  /\ held = << >>
  /\ removed = << >>
  /\ clock = 0

NoCall ==
  [op |-> "none", arg |-> << >>, src |-> 0, dst |-> 0,
   error |-> "none", value |-> FALSE, text |-> << >>, before |-> << >>]

\* No reference is held.
NoRefs ==
  [p |-> << >>, c |-> << >>, copied |-> FALSE, got |-> << >>, kind |-> "none",
   at |-> 0, from |-> "p", changed |-> FALSE, op |-> "none", on |-> "p",
   by |-> "none", error |-> "none", value |-> FALSE]

\* The object store is not in use.
StoreIdle == heap = << >> /\ refs = NoRefs

\* MessageType.Text and MessageType.Photo
MessageType_Text == "text"

MessageType_Photo == "photo"

\* No messageForReplace key.
NoMessage == [present |-> FALSE, type |-> "none", id |-> 0, chatId |-> 0]

\* ctx has no session.
NoSession == [defined |-> FALSE, rest |-> 0, messageForReplace |-> NoMessage]

\* No replaceLastMessage call has been made.
NoReplace ==
  [pc |-> "idle", newMessage |-> "none", before |-> NoMessage, calls |-> << >>,
   plan |-> << >>]

\* The keys of ctx.session that hold the puzzle.
PuzzleData == { "layersMatrix", "colors", "imageData" }

\* The formats of the answer: ctx.match[2].
Formats == { "text", "images" }

\* Most solve requests under way at a time.
MaxRequests == 2

\* No solve action has been handled; the session holds the keys of data.
\* (late counts the progress edits made after the outcome of their request;
\* retry tells that the call before ended without a solution and had another
\* method; intact tells that the guard of the call has passed, that its
\* worker has found no solution and that no other handler has deleted puzzle
\* data since; raised tells that a visualizeSolution has added to
\* flasksInRows of the imageData that is in the session.)
NoHandler(data) ==
  [pc |-> "idle", method |-> Fastest, format |-> "text", data |-> data,
   workerData |-> "none", interval |-> "none", leaked |-> FALSE,
   outcome |-> "unknown", pending |-> FALSE, read |-> "none", late |-> 0,
   retry |-> FALSE, intact |-> FALSE, raised |-> FALSE]

\* No request has been made and the session holds no puzzle.
NoRequests == [r \in 1..MaxRequests |-> NoHandler({})]

BotIdle == session = NoSession /\ bot = NoReplace /\ handler = NoRequests

RECURSIVE Sum(_)
Sum(q) == IF q = << >> THEN 0 ELSE q[1] + Sum(Tail(q))

\* The row lengths of the matrices handed to the constructor: at most MaxFlasks
\* rows and MaxLayers layers; a row may be one layer too long.
Shapes ==
  { sh \in SeqsUpTo(0..(FlaskCapacity + 1), MaxFlasks) : Sum(sh) <= MaxLayers }

\* All matrices over Colors whose rows have the lengths sh.
RECURSIVE MatricesOfShape(_)
MatricesOfShape(sh) ==
  IF sh = << >> THEN { << >> }
  ELSE { << r >> \o rest : r \in [1..sh[1] -> Colors],
                            rest \in MatricesOfShape(Tail(sh)) }

\* Matrices handed to the constructor.
Matrices == UNION { MatricesOfShape(sh) : sh \in Shapes }

\* Indices handed to the index-taking calls: one below and one above the range too.
Indices(fl) == -1 .. Len(fl)

Init ==
  /\ flasks = << >>
  /\ call = NoCall
  /\ StoreIdle
  /\ BotIdle
  /\ SolverIdle

\* puzzle = new Puzzle(m), once, on the default (empty) puzzle; a throwing
\* constructor leaves that one in place.
Construct ==
  /\ call.op = "none"
  /\ \E m \in Matrices :
    LET r == Puzzle_constructor(m)
    IN  /\ flasks' = IF r.error = "none" THEN r.flasks ELSE flasks
        /\ call' = [NoCall EXCEPT !.op = "construct", !.arg = m,
                                  !.error = r.error, !.before = flasks]
        /\ UNCHANGED << solverVars, storeVars, botVars >>

\* puzzle.isTransfusionValid(i, j)
IsTransfusionValid ==
  \E i \in Indices(flasks), j \in Indices(flasks) :
    LET r == Puzzle_isTransfusionValid(flasks, i, j)
    IN  /\ flasks' = flasks
        /\ call' = [NoCall EXCEPT !.op = "isTransfusionValid", !.src = i, !.dst = j,
                                  !.error = r.error, !.value = r.value,
                                  !.before = flasks]
        /\ UNCHANGED << solverVars, storeVars, botVars >>

\* puzzle.transfuse(i, j)
Transfuse ==
  \E i \in Indices(flasks), j \in Indices(flasks) :
    LET r == Puzzle_transfuse(flasks, i, j)
    IN  /\ flasks' = r.flasks
        /\ call' = [NoCall EXCEPT !.op = "transfuse", !.src = i, !.dst = j,
                                  !.error = r.error, !.before = flasks]
        /\ UNCHANGED << solverVars, storeVars, botVars >>

\* puzzle.isSolved
IsSolved ==
  /\ flasks' = flasks
  /\ call' = [NoCall EXCEPT !.op = "isSolved", !.value = Puzzle_isSolved(flasks),
                            !.before = flasks]
  /\ UNCHANGED << solverVars, storeVars, botVars >>

\* puzzle.flasks[k].isInFinalState (src holds k)
IsInFinalState ==
  \E k \in 0..(Len(flasks) - 1) :
    /\ flasks' = flasks
    /\ call' = [NoCall EXCEPT !.op = "isInFinalState", !.src = k,
                              !.value = Flask_isInFinalState(flasks[k + 1]),
                              !.before = flasks]
    /\ UNCHANGED << solverVars, storeVars, botVars >>

Next == Construct \/ IsTransfusionValid \/ Transfuse \/ IsSolved \/ IsInFinalState

Spec == Init /\ [][Next]_vars

(***************************************************************************)
(* Puzzle.toStringWithSort on two puzzles.                                 *)
(***************************************************************************)
\* The layouts whose canonical strings are compared: at most MaxFlasks flasks
\* and MaxCanonLayers layers.
CanonLayouts ==
  UNION { MatricesOfShape(sh) :
            sh \in { q \in SeqsUpTo(0..MaxCanonLayers, MaxFlasks) :
                       Sum(q) <= MaxCanonLayers } }

\* puzzle = new Puzzle(m) has been built.
InitCanon ==
  /\ flasks \in CanonLayouts
  /\ call = NoCall
  /\ StoreIdle
  /\ BotIdle
  /\ SolverIdle

\* puzzle.toStringWithSort() and new Puzzle(other).toStringWithSort(), once: text
\* holds the two strings, arg the other layout.
ToStringWithSort ==
  /\ call.op = "none"
  /\ \E other \in CanonLayouts :
    /\ flasks' = flasks
    /\ call' = [NoCall EXCEPT !.op = "toStringWithSort", !.arg = other,
                              !.text = << Puzzle_toStringWithSort(flasks),
                                          Puzzle_toStringWithSort(other) >>,
                              !.before = flasks]
    /\ UNCHANGED << solverVars, storeVars, botVars >>

NextCanon == ToStringWithSort

SpecCanon == InitCanon /\ [][NextCanon]_vars

(***************************************************************************)
(* Puzzle and Flask as objects: copies and accessors.  An array is a       *)
(* number a with its content heap[a]; a Flask object holds nothing but its *)
(* _layers array and stands for that reference; a Puzzle object is the     *)
(* sequence of its Flask objects.                                          *)
(***************************************************************************)
\* Most arrays of the store: those of a layout of MaxFlasks flasks that is
\* built, copied and read through an accessor, and a replaced flask.
MaxArrays == 7 * MaxFlasks + 2

\* A new array with the given content.
NewArray(h, content) == [heap |-> Append(h, content), ref |-> Len(h) + 1]

\* [ ...array ]
Spread(h, array) == NewArray(h, h[array])

\* A mutant of Ref_Flask_constructor: this._layers = layers, without the spread.
Ref_Flask_constructor_Sharing(h, layers) ==
  IF Len(h[layers]) > FlaskCapacity
    THEN [error |-> "limit", heap |-> h, ref |-> 0]
    ELSE [error |-> "none", heap |-> h, ref |-> layers]

\* new Flask(layers) on the array layers.
Ref_Flask_constructor(h, layers) ==
  IF Len(h[layers]) > FlaskCapacity
    THEN [error |-> "limit", heap |-> h, ref |-> 0]
    ELSE LET spread == Spread(h, layers)
         IN  [error |-> "none", heap |-> spread.heap, ref |-> spread.ref]

\* flask.copy(): new Flask(this._layers)
Ref_Flask_copy(h, flask) == Ref_Flask_constructor(h, flask)

\* flask.layers: [ ...this._layers ]
Ref_Flask_layers(h, flask) == Spread(h, flask)

\* new Puzzle(layersMatrix) on the arrays rows: rows.map((layers) => new Flask(layers))
RECURSIVE Ref_Puzzle_constructor(_, _)
Ref_Puzzle_constructor(h, rows) ==
  IF rows = << >> THEN [error |-> "none", heap |-> h, refs |-> << >>]
  ELSE LET first == Ref_Flask_constructor(h, rows[1])
       IN  IF first.error # "none"
             THEN [error |-> first.error, heap |-> first.heap, refs |-> << >>]
             ELSE LET rest == Ref_Puzzle_constructor(first.heap, Tail(rows))
                  IN  [error |-> rest.error, heap |-> rest.heap,
                       refs |-> IF rest.error # "none" THEN << >>
                                ELSE << first.ref >> \o rest.refs]

\* puzzle.layersMatrix, and the argument of new Puzzle in puzzle.copy():
\* this._flasks.map((flask) => [ ...flask.layers ])
RECURSIVE Ref_Puzzle_layersMatrix(_, _)
Ref_Puzzle_layersMatrix(h, puzzle) ==
  IF puzzle = << >> THEN [heap |-> h, refs |-> << >>]
  ELSE LET layers == Ref_Flask_layers(h, puzzle[1])
           spread == Spread(layers.heap, layers.ref)
           rest   == Ref_Puzzle_layersMatrix(spread.heap, Tail(puzzle))
       IN  [heap |-> rest.heap, refs |-> << spread.ref >> \o rest.refs]

\* A mutant of Ref_Puzzle_copy: the new Puzzle holds the same Flask objects.
Ref_Puzzle_copy_Shallow(h, puzzle) ==
  [error |-> "none", heap |-> h, refs |-> puzzle]

\* puzzle.copy()
Ref_Puzzle_copy(h, puzzle) ==
  LET rows == Ref_Puzzle_layersMatrix(h, puzzle)
  IN  Ref_Puzzle_constructor(rows.heap, rows.refs)

\* puzzle.flasks: this._flasks.map((flask) => flask.copy())
RECURSIVE Ref_Puzzle_flasks(_, _)
Ref_Puzzle_flasks(h, puzzle) ==
  IF puzzle = << >> THEN [heap |-> h, refs |-> << >>]
  ELSE LET first == Ref_Flask_copy(h, puzzle[1])
           rest  == Ref_Puzzle_flasks(first.heap, Tail(puzzle))
       IN  [heap |-> rest.heap, refs |-> << first.ref >> \o rest.refs]

\* puzzle.transfuse(i, j): Flask.transfuse on the Flask objects i and j.
Ref_Puzzle_transfuse(h, puzzle, i, j) ==
  IF OutOfBounds(puzzle, i, j)
    THEN [error |-> "bounds", flasks |-> h]
    ELSE Flask_transfuse(h, puzzle[i + 1], puzzle[j + 1])

\* A mutant of Ref_Flask_isTransfusionValid: the top layers are taken with pop().
Ref_Flask_isTransfusionValid_Popping(h, s, d) ==
  IF Len(h[s]) = 0 THEN [value |-> FALSE, heap |-> h]
  ELSE IF Len(h[d]) = FlaskCapacity THEN [value |-> FALSE, heap |-> h]
  ELSE IF Len(h[d]) # 0
    THEN LET popped == [h EXCEPT ![s] = Front(@)]
         IN  [value |-> Last(h[s]) = Last(popped[d]),
              heap |-> [popped EXCEPT ![d] = Front(@)]]
  ELSE [value |-> TRUE, heap |-> h]

\* Flask.isTransfusionValid(sourceFlask, destinationFlask) on the Flask objects
\* s and d: its result, and the store as its reads of isEmpty, isFull and
\* _layers.at(-1) leave it.
Ref_Flask_isTransfusionValid(h, s, d) ==
  [value |-> Flask_isTransfusionValid(h[s], h[d]), heap |-> h]

\* puzzle.isTransfusionValid(i, j)
Ref_Puzzle_isTransfusionValid(h, puzzle, i, j) ==
  IF OutOfBounds(puzzle, i, j)
    THEN [error |-> "bounds", value |-> FALSE, heap |-> h]
    ELSE IF i = j
      THEN [error |-> "none", value |-> FALSE, heap |-> h]
      ELSE LET r == Ref_Flask_isTransfusionValid(h, puzzle[i + 1], puzzle[j + 1])
           IN  [error |-> "none", value |-> r.value, heap |-> r.heap]

\* The inner loop of calculateSolutionMetric on the Flask object flask, from i
\* on: the loop test reads flask.layers, and so does each side of the
\* comparison.
RECURSIVE Ref_metricOfFlask(_, _, _)
Ref_metricOfFlask(h, flask, i) ==
  LET test == Ref_Flask_layers(h, flask).heap
  IN  IF i < Len(h[flask])
        THEN Ref_metricOfFlask(
               Ref_Flask_layers(Ref_Flask_layers(test, flask).heap, flask).heap,
               flask, i + 1)
        ELSE test

RECURSIVE Ref_metricOfFlasks(_, _)
Ref_metricOfFlasks(h, copies) ==
  IF copies = << >> THEN h
  ELSE Ref_metricOfFlasks(Ref_metricOfFlask(h, copies[1], 1), Tail(copies))

\* calculateSolutionMetric(puzzle) as far as objects go: the store after the
\* copies of puzzle.flasks and the reads of their layers.
Ref_calculateSolutionMetric(h, puzzle) ==
  LET copies == Ref_Puzzle_flasks(h, puzzle)
  IN  Ref_metricOfFlasks(copies.heap, copies.refs)

\* initializeNextStep(step, state, [ i, j ]) as far as objects go: the callback
\* of solveUsingPriorityQueue computes the metric of state, that of
\* solveUsingStack reads no flask.
Ref_initializeNextStep(h, by, state) ==
  IF by = "queue" THEN Ref_calculateSolutionMetric(h, state) ELSE h

\* The two for loops of solveUsingPriorityQueueOrStack on the Puzzle object
\* puzzle of a step, from the k-th pair on, as far as objects go. Each test of
\* a loop reads step.puzzle.flasks, which allocates a copy of every flask; for
\* a pair that puzzle.isTransfusionValid accepts, state = puzzle.copy() and
\* state.transfuse(i, j); a state whose fingerprint is in visited is dropped,
\* another one is added to visited, made a step by initializeNextStep (of the
\* search acc.by, "stack" or "queue") and, when it is solved, ends the loops
\* with the return of its transfusions. acc.children are the Puzzle objects
\* state made so far, dropped or not; acc.returned tells that a solved one was
\* met.
RECURSIVE Ref_expandStep(_, _, _)
Ref_expandStep(puzzle, k, acc) ==
  LET n == Len(puzzle)
  IN  IF acc.error # "none" \/ acc.returned THEN acc
      ELSE IF k >= n * n
        THEN [acc EXCEPT !.heap = Ref_Puzzle_flasks(@, puzzle).heap]
      ELSE
        LET i      == k \div n
            j      == k % n
            outer  == IF j = 0 THEN Ref_Puzzle_flasks(acc.heap, puzzle).heap
                               ELSE acc.heap
            inner  == Ref_Puzzle_flasks(outer, puzzle).heap
            valid  == Ref_Puzzle_isTransfusionValid(inner, puzzle, i, j)
            Going(h) == IF j = n - 1 THEN Ref_Puzzle_flasks(h, puzzle).heap
                                     ELSE h
        IN  IF valid.error # "none"
              THEN [acc EXCEPT !.error = valid.error, !.heap = valid.heap]
            ELSE IF ~valid.value
              THEN Ref_expandStep(puzzle, k + 1,
                                  [acc EXCEPT !.heap = Going(valid.heap)])
            ELSE
              LET state  == Ref_Puzzle_copy(valid.heap, puzzle)
                  poured == Ref_Puzzle_transfuse(state.heap, state.refs, i, j)
              IN  IF state.error # "none"
                    THEN [acc EXCEPT !.error = state.error, !.heap = state.heap]
                  ELSE IF poured.error # "none"
                    THEN [acc EXCEPT !.error = poured.error,
                                     !.heap = poured.flasks]
                  ELSE
                    LET layout == [m \in 1..Len(state.refs) |->
                                     poured.flasks[state.refs[m]]]
                        made   == [acc EXCEPT !.children = Append(@, state.refs)]
                        next   == Ref_initializeNextStep(poured.flasks, acc.by,
                                                         state.refs)
                    IN  IF Fingerprint(layout) \in acc.visited
                          THEN Ref_expandStep(puzzle, k + 1,
                                 [made EXCEPT !.heap = Going(poured.flasks)])
                        ELSE IF Puzzle_isSolved(layout)
                          THEN [made EXCEPT
                                  !.heap = next,
                                  !.visited = @ \cup { Fingerprint(layout) },
                                  !.returned = TRUE]
                        ELSE Ref_expandStep(puzzle, k + 1,
                               [made EXCEPT
                                  !.heap = Going(next),
                                  !.visited = @ \cup { Fingerprint(layout) }])

\* The layers of the flasks (or the contents of the arrays) objects refers to.
ContentOf(h, objects) == [k \in 1..Len(objects) |-> h[objects[k]]]

\* const layersMatrix = [ ... ]; const p = new Puzzle(layersMatrix);
InitStore ==
  /\ flasks = << >>
  /\ call = NoCall
  /\ SolverIdle
  /\ BotIdle
  /\ \E m \in CanonLayouts :
       \E built \in { Ref_Puzzle_constructor(m, [k \in 1..Len(m) |-> k]) } :
         /\ heap = built.heap
         /\ refs = [NoRefs EXCEPT !.p = built.refs]

\* const c = p.copy();
Copy ==
  /\ ~refs.copied
  /\ \E made \in { Ref_Puzzle_copy(heap, refs.p) } :
       /\ heap' = made.heap
       /\ refs' = [refs EXCEPT !.c = made.refs, !.copied = TRUE, !.op = "copy",
                               !.on = "p", !.value = FALSE, !.error = made.error]
  /\ UNCHANGED << puzzleVars, solverVars, botVars >>

\* p.transfuse(i, j) or c.transfuse(i, j)
TransfuseOn ==
  \E on \in { "p", "c" } :
    /\ on = "c" => refs.copied
    /\ \E i \in 0..(Len(refs[on]) - 1), j \in 0..(Len(refs[on]) - 1) :
         \E r \in { Ref_Puzzle_transfuse(heap, refs[on], i, j) } :
           /\ heap' = r.flasks
           /\ refs' = [refs EXCEPT !.op = "transfuse", !.on = on,
                                   !.value = FALSE, !.error = r.error]
    /\ UNCHANGED << puzzleVars, solverVars, botVars >>

\* const got = p.flasks, p.layersMatrix or (a flask of p).layers, or the same of
\* c; once.
Get ==
  /\ refs.kind = "none"
  /\ \E on \in { "p", "c" } :
       /\ on = "c" => refs.copied
       /\ \/ \E r \in { Ref_Puzzle_flasks(heap, refs[on]) } :
               /\ heap' = r.heap
               /\ refs' = [refs EXCEPT !.got = r.refs, !.kind = "flasks",
                                       !.from = on, !.op = "get", !.on = on,
                                       !.value = FALSE, !.error = "none"]
          \/ \E r \in { Ref_Puzzle_layersMatrix(heap, refs[on]) } :
               /\ heap' = r.heap
               /\ refs' = [refs EXCEPT !.got = r.refs, !.kind = "layersMatrix",
                                       !.from = on, !.op = "get", !.on = on,
                                       !.value = FALSE, !.error = "none"]
          \/ \E k \in 1..Len(refs[on]) :
               \E r \in { Ref_Flask_layers(heap, refs[on][k]) } :
                 /\ heap' = r.heap
                 /\ refs' = [refs EXCEPT !.got = << r.ref >>, !.kind = "layers",
                                         !.at = k,
                                         !.from = on, !.op = "get", !.on = on,
                                         !.value = FALSE, !.error = "none"]
  /\ UNCHANGED << puzzleVars, solverVars, botVars >>

\* The caller changes what it got: got[a][k] = colour or got[a].pop() on the
\* arrays of layers or layersMatrix; Flask.transfuse(got[a], got[b]) or
\* got[a] = new Flask([]) on flasks; once.
ChangeGot ==
  /\ refs.kind # "none"
  /\ ~refs.changed
  /\ \/ /\ refs.kind \in { "layers", "layersMatrix" }
        /\ \E a \in 1..Len(refs.got) :
             \/ \E k \in 1..Len(heap[refs.got[a]]), colour \in Colors :
                  heap' = [heap EXCEPT ![refs.got[a]][k] = colour]
             \/ /\ Len(heap[refs.got[a]]) > 0
                /\ heap' = [heap EXCEPT ![refs.got[a]] = Front(@)]
        /\ refs' = [refs EXCEPT !.changed = TRUE, !.op = "change", !.on = refs.from,
                                !.value = FALSE, !.error = "none"]
     \/ /\ refs.kind = "flasks"
        /\ \E a \in 1..Len(refs.got), b \in 1..Len(refs.got) :
             \E r \in { Flask_transfuse(heap, refs.got[a], refs.got[b]) } :
               /\ heap' = r.flasks
               /\ refs' = [refs EXCEPT !.changed = TRUE, !.op = "change", !.on = refs.from,
                                       !.value = FALSE, !.error = r.error]
     \/ /\ refs.kind = "flasks"
        /\ Len(heap) + 2 <= MaxArrays
        /\ \E a \in 1..Len(refs.got) :
             \E made \in { Ref_Flask_constructor(NewArray(heap, << >>).heap,
                                                 Len(heap) + 1) } :
               /\ heap' = made.heap
               /\ refs' = [refs EXCEPT !.got[a] = made.ref, !.changed = TRUE, !.op = "change",
                                       !.on = refs.from, !.value = FALSE, !.error = made.error]
  /\ UNCHANGED << puzzleVars, solverVars, botVars >>

\* p.isTransfusionValid(i, j) or c.isTransfusionValid(i, j), for indices in and
\* out of range, or Flask.isTransfusionValid(got[a], got[b]) on flasks read.
IsTransfusionValidOn ==
  /\ \/ \E on \in { "p", "c" } :
          /\ on = "c" => refs.copied
          /\ \E i \in Indices(refs[on]), j \in Indices(refs[on]) :
               \E r \in { Ref_Puzzle_isTransfusionValid(heap, refs[on], i, j) } :
                 /\ heap' = r.heap
                 /\ refs' = [refs EXCEPT !.op = "isTransfusionValid", !.on = on,
                                         !.error = r.error, !.value = r.value]
     \/ /\ refs.kind = "flasks"
        /\ \E a \in 1..Len(refs.got), b \in 1..Len(refs.got) :
             \E r \in { Ref_Flask_isTransfusionValid(heap, refs.got[a],
                                                      refs.got[b]) } :
               /\ heap' = r.heap
               /\ refs' = [refs EXCEPT !.op = "isTransfusionValid", !.on = "got",
                                       !.error = "none", !.value = r.value]
  /\ UNCHANGED << puzzleVars, solverVars, botVars >>

\* solveUsingStack or solveUsingPriorityQueue is called on the puzzle p, or c,
\* and takes its first pass: the queue search computes the metric of the
\* first step, and the step, whose layout alone is in visited, is expanded;
\* once. The value is whether the loops ended with the return of a solution,
\* by the search.
Expand ==
  /\ refs.kind = "none"
  /\ \E on \in { "p", "c" }, by \in { "stack", "queue" } :
       /\ on = "c" => refs.copied
       /\ \E acc \in { Ref_expandStep(refs[on], 0,
                          [heap |-> Ref_initializeNextStep(heap, by, refs[on]),
                           children |-> << >>, error |-> "none", by |-> by,
                           visited |-> { Fingerprint([m \in 1..Len(refs[on]) |->
                                                        heap[refs[on][m]]]) },
                           returned |-> FALSE]) } :
            /\ heap' = acc.heap
            /\ refs' = [refs EXCEPT !.got = acc.children, !.kind = "children",
                                    !.from = on, !.op = "expand", !.on = on,
                                    !.by = by,
                                    !.value = acc.returned, !.error = acc.error]
  /\ UNCHANGED << puzzleVars, solverVars, botVars >>

NextExpand == Copy \/ TransfuseOn \/ Expand

\* The layouts of the puzzles that are expanded: those of CanonLayouts, and the
\* layouts of MaxFlasks flasks that hold FlaskCapacity layers of one colour,
\* where a child can be solved.
ExpandLayouts ==
  CanonLayouts \cup
    { m \in UNION { MatricesOfShape(sh) :
                      sh \in { q \in [1..MaxFlasks -> 0..FlaskCapacity] :
                                 Sum(q) = FlaskCapacity } } :
        \A k \in 1..Len(m) : \A l \in 1..Len(m[k]) : m[k][l] = 0 }

\* const p = new Puzzle(m);
InitExpand ==
  /\ flasks = << >>
  /\ call = NoCall
  /\ SolverIdle
  /\ BotIdle
  /\ \E m \in ExpandLayouts :
       \E built \in { Ref_Puzzle_constructor(m, [k \in 1..Len(m) |-> k]) } :
         /\ heap = built.heap
         /\ refs = [NoRefs EXCEPT !.p = built.refs]

SpecExpand == InitExpand /\ [][NextExpand]_vars

NextStore == Copy \/ TransfuseOn \/ IsTransfusionValidOn \/ Get \/ ChangeGot

SpecStore == InitStore /\ [][NextStore]_vars

(***************************************************************************)
(* solve(layersMatrix, solvingMethod), one step of its loops at a time.    *)
(***************************************************************************)
\* The matrices handed to solve: at most MaxFlasks rows of at most
\* FlaskCapacity layers each.
InputMatrices(n) ==
  UNION { MatricesOfShape(sh) : sh \in SeqsUpTo(0..FlaskCapacity, n) }

\* solve has been called and stands before its for loop, i = DefaultEmptyFlasksNumber.
InitSolve ==
  /\ flasks = << >>
  /\ call = NoCall
  /\ StoreIdle
  /\ BotIdle
  /\ pc = "loop"
  /\ layersMatrix \in InputMatrices(MaxFlasks)
  /\ solvingMethod \in SolvingMethod
  /\ emptyFlasks = DefaultEmptyFlasksNumber
  /\ discipline = "stack"
  /\ maxAllowedMetricDelta = 0
  /\ stackOrQueue = << >>
  /\ visited = {}
  /\ metricMap = EmptyMap
  /\ solution = Undefined
  /\ thrown = "none"
  /\ tried = << >>
  /\ held = << >>
  /\ removed = << >>
  /\ clock = 0

\* A mutant of StartSearch: the visited set starts empty.
StartSearch_Unseeded ==
  /\ pc = "loop"
  /\ emptyFlasks <= MaxEmptyFlasksNumber
  /\ LET built == Puzzle_constructor(
                    layersMatrixWithEmptyFlasks(layersMatrix, emptyFlasks))
         search == searchFor(solvingMethod)
     IN  IF built.error # "none"
           THEN /\ pc' = "error"
                /\ thrown' = built.error
                /\ UNCHANGED << discipline, maxAllowedMetricDelta, stackOrQueue,
                                visited, metricMap, tried, held, removed >>
           ELSE /\ pc' = "search"
                /\ discipline' = search.discipline
                /\ maxAllowedMetricDelta' = search.maxAllowedMetricDelta
                /\ stackOrQueue' = << initialStep(search.discipline, built.flasks) >>
                /\ visited' = {}
                /\ metricMap' = EmptyMap
                /\ thrown' = "none"
                /\ tried' = Append(tried, [count |-> emptyFlasks, found |-> FALSE])
                /\ held' = << [puzzle |-> built.flasks, moves |-> 0] >>
                /\ removed' = << >>
  /\ clock' = clock + 1
  /\ UNCHANGED << layersMatrix, solvingMethod, emptyFlasks, solution, puzzleVars, storeVars, botVars >>

\* One pass of the for loop up to the call of the search: the puzzle with i empty
\* flasks is built and the search the method asks for starts with its first step
\* on the stack or in the queue, the start layout's fingerprint visited.
StartSearch ==
  /\ pc = "loop"
  /\ emptyFlasks <= MaxEmptyFlasksNumber
  /\ LET built == Puzzle_constructor(
                    layersMatrixWithEmptyFlasks(layersMatrix, emptyFlasks))
         search == searchFor(solvingMethod)
     IN  IF built.error # "none"
           THEN /\ pc' = "error"
                /\ thrown' = built.error
                /\ UNCHANGED << discipline, maxAllowedMetricDelta, stackOrQueue,
                                visited, metricMap, tried, held, removed >>
           ELSE /\ pc' = "search"
                /\ discipline' = search.discipline
                /\ maxAllowedMetricDelta' = search.maxAllowedMetricDelta
                /\ stackOrQueue' = << initialStep(search.discipline, built.flasks) >>
                /\ visited' = { Fingerprint(built.flasks) }
                /\ metricMap' = EmptyMap
                /\ thrown' = "none"
                /\ tried' = Append(tried, [count |-> emptyFlasks, found |-> FALSE])
                /\ held' = << [puzzle |-> built.flasks, moves |-> 0] >>
                /\ removed' = << >>
  /\ clock' = clock + 1
  /\ UNCHANGED << layersMatrix, solvingMethod, emptyFlasks, solution, puzzleVars, storeVars, botVars >>

\* The steps of after that are not among the steps of before, as history
\* records, in the order in which the two for loops added them: that of their
\* last transfusions (i, j).
AddedSteps(before, after) ==
  LET old     == { before[k] : k \in 1..Len(before) }
      fresh   == { after[k] : k \in 1..Len(after) } \ old
      key(st) == Last(st.transfusions)[1] * Len(st.puzzle)
                   + Last(st.transfusions)[2]
      nth(k)  == CHOOSE st \in fresh :
                   Cardinality({ o \in fresh : key(o) < key(st) }) = k - 1
  IN  [k \in 1..Cardinality(fresh) |->
         [puzzle |-> nth(k).puzzle, moves |-> Len(nth(k).transfusions)]]

\* The step taken off the stack or queue, as a history record; onHold is the
\* number of steps put on the stack or queue before it was taken.
RemovedStep(step, onHold, expanded) ==
  [puzzle |-> step.puzzle, moves |-> Len(step.transfusions),
   metric |-> IF "metric" \in DOMAIN step THEN step.metric ELSE 0,
   onHold |-> onHold, expanded |-> expanded]

\* One pass of the while loop of solveUsingPriorityQueueOrStack: a step is taken
\* from the stack or queue, filtered, and its transfusions are tried; a solved
\* child ends the search and, by the break, the for loop of solve.
SearchStep ==
  /\ pc = "search"
  /\ Len(stackOrQueue) > 0
  /\ \E got \in { getStep(discipline, stackOrQueue) } :
       \E acc \in { searchPass(discipline, maxAllowedMetricDelta,
                               stackOrQueue, visited, metricMap) } :
         /\ removed' = Append(removed,
                       RemovedStep(got.step, Len(held),
                         preliminaryFilter(discipline, maxAllowedMetricDelta,
                                           metricMap, got.step).pass))
         /\ clock' = clock + 1
         /\ held' = held \o AddedSteps(got.rest, acc.stackOrQueue)
         /\ tried' = IF acc.returned
                       THEN [tried EXCEPT ![Len(tried)].found = TRUE]
                       ELSE tried
         /\ stackOrQueue' = acc.stackOrQueue
         /\ visited' = acc.visited
         /\ metricMap' = acc.metricMap
         /\ thrown' = acc.error
         /\ solution' = IF acc.returned
                          THEN [defined |-> TRUE, transfusions |-> acc.solution]
                          ELSE solution
         /\ pc' = IF acc.error # "none" THEN "error"
                  ELSE IF acc.returned THEN "done"
                  ELSE "search"
  /\ UNCHANGED << layersMatrix, solvingMethod, emptyFlasks, discipline,
                  maxAllowedMetricDelta, puzzleVars, storeVars, botVars >>

\* A mutant of SearchExhausted: the next count is skipped.
SearchExhausted_SkipsCount ==
  /\ pc = "search"
  /\ Len(stackOrQueue) = 0
  /\ solution' = Undefined
  /\ emptyFlasks' = emptyFlasks + 2
  /\ pc' = "loop"
  /\ clock' = clock + 1
  /\ UNCHANGED << layersMatrix, solvingMethod, discipline, maxAllowedMetricDelta,
                  stackOrQueue, visited, metricMap, thrown, tried, held, removed,
                  puzzleVars, storeVars, botVars >>

\* The while loop ends on the empty stack or queue: the search returns undefined
\* and the for loop goes on with one more empty flask.
SearchExhausted ==
  /\ pc = "search"
  /\ Len(stackOrQueue) = 0
  /\ solution' = Undefined
  /\ emptyFlasks' = emptyFlasks + 1
  /\ pc' = "loop"
  /\ clock' = clock + 1
  /\ UNCHANGED << layersMatrix, solvingMethod, discipline, maxAllowedMetricDelta,
                  stackOrQueue, visited, metricMap, thrown, tried, held, removed,
                  puzzleVars, storeVars, botVars >>

\* A mutant of GiveUp: the count returned on failure is the bound itself.
GiveUp_ReturnsBound ==
  /\ pc = "loop"
  /\ emptyFlasks > MaxEmptyFlasksNumber
  /\ pc' = "done"
  /\ clock' = clock + 1
  /\ emptyFlasks' = MaxEmptyFlasksNumber
  /\ UNCHANGED << layersMatrix, solvingMethod, discipline,
                  maxAllowedMetricDelta, stackOrQueue, visited, metricMap,
                  solution, thrown, tried, held, removed, puzzleVars, storeVars, botVars >>

\* A mutant of GiveUp: the for loop starts again instead of ending.
GiveUp_StartsAgain ==
  /\ pc = "loop"
  /\ emptyFlasks > MaxEmptyFlasksNumber
  /\ pc' = "loop"
  /\ emptyFlasks' = DefaultEmptyFlasksNumber
  /\ tried' = << >>
  /\ clock' = 0
  /\ UNCHANGED << layersMatrix, solvingMethod, discipline,
                  maxAllowedMetricDelta, stackOrQueue, visited, metricMap,
                  solution, thrown, held, removed, puzzleVars, storeVars, botVars >>

\* The for loop ends on i > MaxEmptyFlasksNumber: solve returns [ solution, i ].
GiveUp ==
  /\ pc = "loop"
  /\ emptyFlasks > MaxEmptyFlasksNumber
  /\ pc' = "done"
  /\ clock' = clock + 1
  /\ UNCHANGED << layersMatrix, solvingMethod, emptyFlasks, discipline,
                  maxAllowedMetricDelta, stackOrQueue, visited, metricMap,
                  solution, thrown, tried, held, removed, puzzleVars, storeVars, botVars >>

NextSolve == StartSearch \/ SearchStep \/ SearchExhausted \/ GiveUp

SpecSolve == InitSolve /\ [][NextSolve]_vars

\* An input of five full flasks of five colours, such as the image analyser and
\* the puzzle generator of the tests hand to solve.
SampleInputs ==
  { << <<0, 1, 3, 1>>, <<0, 0, 1, 4>>, <<2, 1, 3, 4>>,
       <<2, 4, 2, 2>>, <<3, 4, 0, 3>> >> }

\* An input of five full flasks of five colours that two empty flasks solve in
\* fifteen transfusions.
ShortestSampleInputs ==
  { << <<4, 0, 0, 2>>, <<2, 4, 1, 4>>, <<2, 1, 3, 3>>,
       <<3, 0, 3, 0>>, <<2, 1, 1, 4>> >> }

\* solve has been called on a sample input: on the first under "balanced" or
\* "fastest" (the two methods whose searches on it take few passes), on the
\* second under "shortest".
InitSample ==
  /\ flasks = << >>
  /\ call = NoCall
  /\ StoreIdle
  /\ BotIdle
  /\ pc = "loop"
  /\ \/ layersMatrix \in SampleInputs /\ solvingMethod \in { Balanced, Fastest }
     \/ layersMatrix \in ShortestSampleInputs /\ solvingMethod = Shortest
  /\ emptyFlasks = DefaultEmptyFlasksNumber
  /\ discipline = "stack"
  /\ maxAllowedMetricDelta = 0
  /\ stackOrQueue = << >>
  /\ visited = {}
  /\ metricMap = EmptyMap
  /\ solution = Undefined
  /\ thrown = "none"
  /\ tried = << >>
  /\ held = << >>
  /\ removed = << >>
  /\ clock = 0

SpecSolveSample == InitSample /\ [][NextSolve]_vars

\* solve has been called on any matrix a caller may build, a row that is one
\* layer too long included.
InitAny ==
  /\ flasks = << >>
  /\ call = NoCall
  /\ StoreIdle
  /\ BotIdle
  /\ pc = "loop"
  /\ layersMatrix \in Matrices
  /\ solvingMethod \in SolvingMethod
  /\ emptyFlasks = DefaultEmptyFlasksNumber
  /\ discipline = "stack"
  /\ maxAllowedMetricDelta = 0
  /\ stackOrQueue = << >>
  /\ visited = {}
  /\ metricMap = EmptyMap
  /\ solution = Undefined
  /\ thrown = "none"
  /\ tried = << >>
  /\ held = << >>
  /\ removed = << >>
  /\ clock = 0

SpecSolveAny == InitAny /\ [][NextSolve]_vars

\* A step of solve, whichever it is, seen by the clock alone.
Tick == pc \in {"loop", "search"} /\ clock' = clock + 1

\* solve runs on a worker thread of its own and is never suspended for good: as
\* long as it has not returned or thrown, it takes its next step.  (Every step
\* of NextSolve is a Tick, and Tick can happen exactly when NextSolve can.)
SpecSolveFair == SpecSolve /\ WF_clock(Tick)

(***************************************************************************)
(* Properties of Flask and Puzzle, checked under Spec.                     *)
(***************************************************************************)
\* The last call took two indices inside the layout it was made on.
InRangeCall(op) ==
  /\ call.op = op
  /\ ~OutOfBounds(call.before, call.src, call.dst)

\* The source and the destination flask of the last call, before the call.
SrcBefore == call.before[call.src + 1]

DstBefore == call.before[call.dst + 1]

\* The length of the longest block of equal colours at the top of a non-empty s.
TopRun(s) ==
  CHOOSE k \in 1..Len(s) :
    /\ \A m \in (Len(s) - k + 1)..Len(s) : s[m] = s[Len(s)]
    /\ (k = Len(s) \/ s[Len(s) - k] # s[Len(s)])

\* The number of layers of colour c in the layout fl.
RECURSIVE CountColor(_, _)
CountColor(fl, c) ==
  IF fl = << >> THEN 0
  ELSE Cardinality({k \in 1..Len(fl[1]) : fl[1][k] = c}) + CountColor(Tail(fl), c)

\* C4: Flask.isTransfusionValid(source, destination) is true exactly when the
\* source is not empty, the destination is not full, and the destination is
\* empty or its top colour is the source's top colour.
C4_IsTransfusionValidRule ==
  (InRangeCall("isTransfusionValid") /\ call.src # call.dst) =>
    /\ call.error = "none"
    /\ call.value =
         ( /\ Len(SrcBefore) > 0
           /\ Len(DstBefore) < FlaskCapacity
           /\ (Len(DstBefore) = 0
                 \/ SrcBefore[Len(SrcBefore)] = DstBefore[Len(DstBefore)]) )

\* C4 witness: a pour onto a non-empty flask with the same top colour was found valid.
C4_Witness ==
  /\ InRangeCall("isTransfusionValid")
  /\ call.src # call.dst
  /\ call.value = TRUE
  /\ Len(DstBefore) > 0

\* C5: a legal transfusion between two flasks moves exactly k = min(r, f) layers,
\* r the top run of the source and f the free room of the destination: the source
\* loses its top k layers, the destination gains k layers of the source's old top
\* colour, and no other flask changes.
C5_TransfuseMovesMinRunFree ==
  (InRangeCall("transfuse") /\ call.src # call.dst /\ call.error = "none") =>
    LET r == TopRun(SrcBefore)
        f == FlaskCapacity - Len(DstBefore)
        k == Min(r, f)
    IN  /\ Len(flasks) = Len(call.before)
        /\ flasks[call.src + 1] = SubSeq(SrcBefore, 1, Len(SrcBefore) - k)
        /\ flasks[call.dst + 1] =
             DstBefore \o [n \in 1..k |-> SrcBefore[Len(SrcBefore)]]
        /\ \A n \in 1..Len(flasks) :
             (n # call.src + 1 /\ n # call.dst + 1) => flasks[n] = call.before[n]

\* C5 witness: a transfusion cut short by the destination's free room (f < r).
C5_Witness ==
  /\ InRangeCall("transfuse")
  /\ call.src # call.dst
  /\ call.error = "none"
  /\ FlaskCapacity - Len(DstBefore) < TopRun(SrcBefore)
  /\ Len(flasks[call.dst + 1]) = FlaskCapacity

\* C6: capacity invariant: whatever calls were made on a constructed layout,
\* every flask holds between 0 and FlaskCapacity layers.
C6_CapacityInvariant ==
  \A n \in 1..Len(flasks) :
    Len(flasks[n]) >= 0 /\ Len(flasks[n]) <= FlaskCapacity

\* C6 witness: a transfusion has just filled a flask that was not full.
C6_Witness ==
  /\ InRangeCall("transfuse")
  /\ call.src # call.dst
  /\ call.error = "none"
  /\ Len(DstBefore) < FlaskCapacity
  /\ Len(flasks[call.dst + 1]) = FlaskCapacity
  /\ Len(SrcBefore) - Len(flasks[call.src + 1]) >= 2

\* C7: mass conservation: a legal transfusion changes neither the number of
\* layers of the layout nor the number of layers of any colour.
C7_MassConservation ==
  (InRangeCall("transfuse") /\ call.error = "none") =>
    /\ SumLen(flasks) = SumLen(call.before)
    /\ \A c \in Colors : CountColor(flasks, c) = CountColor(call.before, c)

\* C7 witness: a legal transfusion moved two layers or more.
C7_Witness ==
  /\ InRangeCall("transfuse")
  /\ call.src # call.dst
  /\ call.error = "none"
  /\ Len(flasks[call.dst + 1]) >= Len(DstBefore) + 2

\* C8: Flask.transfuse on a pair isTransfusionValid rejects fails with the
\* invalid-transfusion error and leaves the flasks as they were.
C8_InvalidTransfuseFails ==
  (InRangeCall("transfuse") /\ ~Flask_isTransfusionValid(SrcBefore, DstBefore)) =>
    /\ call.error = "invalid"
    /\ flasks = call.before

\* C8 witness: a transfusion between two non-empty flasks with different top
\* colours failed.
C8_Witness ==
  /\ InRangeCall("transfuse")
  /\ call.src # call.dst
  /\ call.error = "invalid"
  /\ Len(SrcBefore) > 0
  /\ Len(DstBefore) > 0
  /\ Len(DstBefore) < FlaskCapacity

\* C9: Puzzle.transfuse(i, i) with i in range raises no error and changes
\* nothing, whatever flask i holds.
C9_SelfTransfuseSilent ==
  (InRangeCall("transfuse") /\ call.src = call.dst) =>
    /\ call.error = "none"
    /\ flasks = call.before

\* C10: with an index outside 0 .. N-1, Puzzle.isTransfusionValid and
\* Puzzle.transfuse fail with the out-of-bounds error and change nothing; and
\* Puzzle.isTransfusionValid(i, i) is false for i in range.
C10_BoundsAndSelfCheck ==
  /\ ( /\ call.op \in {"isTransfusionValid", "transfuse"}
       /\ ( call.src < 0 \/ call.src >= Len(call.before)
              \/ call.dst < 0 \/ call.dst >= Len(call.before) ) )
       => (call.error = "bounds" /\ flasks = call.before)
  /\ (InRangeCall("isTransfusionValid") /\ call.src = call.dst)
       => (call.error = "none" /\ call.value = FALSE /\ flasks = call.before)

\* C10 witness: isTransfusionValid was asked about a non-empty flask and the
\* index just past the last flask.
C10_Witness ==
  /\ call.op = "isTransfusionValid"
  /\ call.src = 0
  /\ call.dst = Len(call.before)
  /\ Len(call.before) > 0
  /\ Len(call.before[1]) > 0
  /\ call.error = "bounds"

\* The flask f holds layers of one colour only (none at all included).
OneColour(f) == \A a \in 1..Len(f), b \in 1..Len(f) : f[a] = f[b]

\* C11: a flask is in final state exactly when it is empty or holds FlaskCapacity
\* layers of one colour, and Puzzle.isSolved is true exactly when every flask of
\* the layout is in final state.
C11_FinalStateAndSolved ==
  /\ call.op = "isInFinalState" =>
        call.value = LET f == call.before[call.src + 1]
                     IN  Len(f) = 0 \/ (Len(f) = FlaskCapacity /\ OneColour(f))
  /\ call.op = "isSolved" =>
        call.value = \A n \in 1..Len(call.before) :
                       \/ Len(call.before[n]) = 0
                       \/ ( /\ Len(call.before[n]) = FlaskCapacity
                            /\ OneColour(call.before[n]) )

\* C11 witness: isSolved was false on a layout whose only flask not in final
\* state is a partly filled flask of one colour, beside a full flask of one colour.
C11_Witness ==
  /\ call.op = "isSolved"
  /\ call.value = FALSE
  /\ \E n \in 1..Len(flasks), m \in 1..Len(flasks) :
       /\ Len(flasks[n]) > 0
       /\ Len(flasks[n]) < FlaskCapacity
       /\ OneColour(flasks[n])
       /\ Len(flasks[m]) = FlaskCapacity
       /\ OneColour(flasks[m])

(***************************************************************************)
(* Properties of Puzzle.toStringWithSort, checked under SpecCanon.         *)
(***************************************************************************)
\* How many flasks of the layout fl hold exactly the layers f.
Occurrences(fl, f) == Cardinality({ k \in 1..Len(fl) : fl[k] = f })

\* The flask lists a and b are permutations of each other.
SameFlasks(a, b) ==
  /\ Len(a) = Len(b)
  /\ \A k \in 1..Len(a) : Occurrences(a, a[k]) = Occurrences(b, a[k])

\* C12 as claimed: the canonical strings of two layouts are equal when the flask
\* lists are permutations of each other, and differ when the multisets of flask
\* contents differ.
C12_CanonicalAsClaimed ==
  call.op = "toStringWithSort" =>
    ((call.text[1] = call.text[2]) <=> SameFlasks(call.before, call.arg))

\* C12 amended: the canonical strings of two layouts are equal when the flask
\* lists are permutations of each other, and differ when the multisets of flask
\* contents differ and both layouts have at least one flask.
C12_CanonicalAmended ==
  call.op = "toStringWithSort" =>
    /\ SameFlasks(call.before, call.arg) => call.text[1] = call.text[2]
    /\ ( /\ ~SameFlasks(call.before, call.arg)
         /\ Len(call.before) > 0
         /\ Len(call.arg) > 0 ) => call.text[1] # call.text[2]

\* C12 witness: two layouts with the same two different non-empty flasks in
\* opposite orders gave one string.
C12_Witness ==
  /\ call.op = "toStringWithSort"
  /\ Len(call.before) = 2
  /\ Len(call.before[1]) > 0
  /\ Len(call.before[2]) > 0
  /\ call.before[1] # call.before[2]
  /\ call.arg = << call.before[2], call.before[1] >>
  /\ call.text[1] = call.text[2]

(***************************************************************************)
(* Properties of solve, checked under SpecSolve.                           *)
(***************************************************************************)
\* The layout solve's last search started from: the rows of layersMatrix followed
\* by emptyFlasks empty flasks.
ExtendedLayout ==
  Puzzle_constructor(layersMatrixWithEmptyFlasks(layersMatrix, emptyFlasks)).flasks

\* solve has returned a move list.
SolveReturnedSolution == pc = "done" /\ solution.defined

\* puzzle.transfuse(...transfusion) for the transfusions of moves in order, up to
\* the first one that throws.
RECURSIVE Replay(_, _)
Replay(fl, moves) ==
  IF moves = << >> THEN [error |-> "none", flasks |-> fl]
  ELSE LET r == Puzzle_transfuse(fl, moves[1][1], moves[1][2])
       IN  IF r.error # "none" THEN r ELSE Replay(r.flasks, Tail(moves))

\* The layouts one legal transfusion away from fl.
Successors(fl) ==
  { Puzzle_transfuse(fl, p[1], p[2]).flasks :
      p \in { q \in (0..(Len(fl) - 1)) \X (0..(Len(fl) - 1)) :
                Puzzle_isTransfusionValid(fl, q[1], q[2]).value } }

\* Some layout of frontier reaches a solved layout by at most n legal
\* transfusions (seen: the layouts reached before).
RECURSIVE SolvedWithin(_, _, _)
SolvedWithin(frontier, seen, n) ==
  IF \E fl \in frontier : Puzzle_isSolved(fl) THEN TRUE
  ELSE IF n <= 0 \/ frontier = {} THEN FALSE
  ELSE SolvedWithin((UNION { Successors(fl) : fl \in frontier }) \ seen,
                    seen \cup frontier, n - 1)

\* C1: the move list solve returns, replayed with Puzzle.transfuse on the initial
\* flasks followed by the returned number of empty flasks, throws at no step and
\* ends in a solved layout; for each of the three methods.
C1_SolutionReplaysToSolved ==
  SolveReturnedSolution =>
    LET r == Replay(ExtendedLayout, solution.transfusions)
    IN  r.error = "none" /\ Puzzle_isSolved(r.flasks)

\* C1 witness: solve has returned five moves or more that use an added empty flask.
C1_Witness ==
  /\ SolveReturnedSolution
  /\ emptyFlasks >= 1
  /\ Len(solution.transfusions) >= 5
  /\ Len(layersMatrix) = 2

\* C2: "fastest" runs the stack search, "balanced" the priority-queue search
\* with tolerance 1 and "shortest" the priority-queue search with tolerance 0.
C2_DispatchAsClaimed ==
  pc = "search" =>
    /\ solvingMethod = Fastest => discipline = "stack"
    /\ solvingMethod = Balanced =>
         (discipline = "queue" /\ maxAllowedMetricDelta = 1)
    /\ solvingMethod = Shortest =>
         (discipline = "queue" /\ maxAllowedMetricDelta = 0)

\* C3: under "shortest" no sequence of legal transfusions shorter than the
\* returned move list brings the extended layout to a solved layout (checked
\* under SpecSolveSample: the filter of the queue search drops the path of the
\* shorter list).
C3_ShortestIsMinimal ==
  (SolveReturnedSolution /\ solvingMethod = Shortest) =>
    ~SolvedWithin({ ExtendedLayout }, {}, Len(solution.transfusions) - 1)

(***************************************************************************)
(* Properties of one search, checked under SpecSolve with the histories    *)
(* held and removed.                                                       *)
(***************************************************************************)
\* The fingerprints of the layouts of the history records in log.
FingerprintsOf(log) == { Fingerprint(log[k].puzzle) : k \in 1..Len(log) }

\* What holds of the histories of a search in every state: the steps ever put on
\* the stack or queue (the first step included) have pairwise different
\* fingerprints, all of them visited; the steps taken off have pairwise
\* different fingerprints and were put on before; and the steps put on and not
\* taken off are the ones on the stack or queue.
NoFingerprintTwice ==
  /\ \E fps \in { FingerprintsOf(held) } :
       /\ Cardinality(fps) = Len(held)
       /\ fps \subseteq visited
  /\ Cardinality(FingerprintsOf(removed)) = Len(removed)
  /\ \A r \in 1..Len(removed) :
       \E h \in 1..removed[r].onHold : held[h].puzzle = removed[r].puzzle
  /\ Len(held) = Len(removed) + Len(stackOrQueue)

\* C13: no-cycle guarantee: during a search the visited set only grows, and in
\* every state no two steps ever held by the stack or queue (the first step
\* included) have the same fingerprint and no fingerprint was expanded twice.
C13_NoCycle ==
  /\ [](NoFingerprintTwice)
  /\ [][pc = "search" => visited \subseteq visited']_vars

\* C13 witness: a step taken off the stack or queue has a child with the
\* fingerprint of the first step (a pour back to the start), and the search went on.
C13_Witness ==
  /\ pc = "search"
  /\ Len(stackOrQueue) > 0
  /\ \E r \in 2..Len(removed) :
       Fingerprint(held[1].puzzle)
         \in { Fingerprint(child) : child \in Successors(removed[r].puzzle) }

(***************************************************************************)
(* Properties of the loop of solve, checked under SpecSolve with the       *)
(* history tried.                                                          *)
(***************************************************************************)
\* C14: solve runs its searches with DefaultEmptyFlasksNumber, then one more,
\* and so on; only the last search run can have returned a solution, no search
\* is under way or yet to come after one that has; and solve returns the count
\* of that search with the solution (so every smaller count was tried and gave
\* none).
C14_AscendingCounts ==
  /\ \A k \in 1..Len(tried) : tried[k].count = DefaultEmptyFlasksNumber + (k - 1)
  /\ \A k \in 1..(Len(tried) - 1) : ~tried[k].found
  /\ (Len(tried) > 0 /\ tried[Len(tried)].found) => pc = "done"
  /\ SolveReturnedSolution =>
       /\ Len(tried) > 0
       /\ tried[Len(tried)].found
       /\ emptyFlasks = tried[Len(tried)].count

\* C14 witness: solve has returned a solution found by its third search.
C14_Witness ==
  /\ SolveReturnedSolution
  /\ Len(tried) = 3
  /\ emptyFlasks = DefaultEmptyFlasksNumber + 2

\* solve has returned without a solution.
SolveReturnedNoSolution == pc = "done" /\ ~solution.defined

\* C15 as claimed: when no search finds a solution, solve returns undefined with
\* the count MaxEmptyFlasksNumber.
C15_FailureCountAsClaimed ==
  SolveReturnedNoSolution => emptyFlasks = MaxEmptyFlasksNumber

\* C15 amended: when no search finds a solution, solve returns undefined with
\* the count MaxEmptyFlasksNumber + 1, one more than the last count tried; the
\* counts tried are DefaultEmptyFlasksNumber .. MaxEmptyFlasksNumber.
C15_FailureCountAmended ==
  SolveReturnedNoSolution =>
    /\ emptyFlasks = MaxEmptyFlasksNumber + 1
    /\ Len(tried) = MaxEmptyFlasksNumber - DefaultEmptyFlasksNumber + 1
    /\ \A k \in 1..Len(tried) :
         tried[k].count = DefaultEmptyFlasksNumber + (k - 1) /\ ~tried[k].found
    /\ \A k \in 1..Len(tried) : tried[k].count # emptyFlasks

\* C15 witness: solve has returned without a solution for a layout that is not
\* solved and holds eight layers.
C15_Witness ==
  /\ SolveReturnedNoSolution
  /\ ~Puzzle_isSolved(ExtendedLayout)
  /\ SumLen(layersMatrix) = 2 * FlaskCapacity

(***************************************************************************)
(* Termination and completeness of solve.                                  *)
(***************************************************************************)
\* The layout fl up to the order of its flasks: how often each flask occurs.
BagOfFlasks(fl) ==
  [f \in { fl[k] : k \in 1..Len(fl) } |-> Occurrences(fl, f)]

\* One layout of S for every order-free layout of S.
Representatives(S) ==
  { CHOOSE fl \in S : BagOfFlasks(fl) = b : b \in { BagOfFlasks(fl) : fl \in S } }

\* Some layout of frontier reaches a solved layout by legal transfusions (seen:
\* the order-free layouts reached before).
RECURSIVE CanReachSolved(_, _)
CanReachSolved(frontier, seen) ==
  IF \E fl \in frontier : Puzzle_isSolved(fl) THEN TRUE
  ELSE IF frontier = {} THEN FALSE
  ELSE \E reached \in { seen \cup { BagOfFlasks(fl) : fl \in frontier } } :
         CanReachSolved(
           Representatives({ fl \in UNION { Successors(g) : g \in frontier } :
                               BagOfFlasks(fl) \notin reached }),
           reached)

\* The layout solve searches with e empty flasks.
LayoutWith(e) ==
  Puzzle_constructor(layersMatrixWithEmptyFlasks(layersMatrix, e)).flasks

\* The counts of empty flasks, of those solve may try, with which a solved
\* layout can be reached from the input.
SolvableCounts ==
  { e \in DefaultEmptyFlasksNumber..MaxEmptyFlasksNumber :
      CanReachSolved({ LayoutWith(e) }, {}) }

\* C16: no-solution termination: solve ends; every search ends; solve runs at
\* most one search for each count of DefaultEmptyFlasksNumber ..
\* MaxEmptyFlasksNumber; and for an input from which no solved layout can be
\* reached with any of these counts solve ends without a solution.
C16_Termination ==
  /\ <>(pc = "done")
  /\ [](pc = "search" => <>(pc # "search"))
  /\ []( /\ Len(tried) <= MaxEmptyFlasksNumber - DefaultEmptyFlasksNumber + 1
         /\ \A a \in 1..Len(tried), b \in 1..Len(tried) :
              a # b => tried[a].count # tried[b].count
         /\ \A a \in 1..Len(tried) :
              tried[a].count \in DefaultEmptyFlasksNumber..MaxEmptyFlasksNumber )
  /\ []((pc = "done" /\ SolvableCounts = {}) => ~solution.defined)

\* C16 witness: solve has ended without a solution after three searches with
\* the stack on an input of two flasks, the last search of ten passes or more.
C16_Witness ==
  /\ SolveReturnedNoSolution
  /\ Len(tried) = MaxEmptyFlasksNumber - DefaultEmptyFlasksNumber + 1
  /\ Len(layersMatrix) = 2
  /\ Len(removed) >= 10
  /\ Len(stackOrQueue) = 0

\* C17: under "fastest", when the input is not solved and a solved layout can be
\* reached with some count of DefaultEmptyFlasksNumber .. MaxEmptyFlasksNumber
\* empty flasks, solve returns a solution, and the count it returns is the
\* least such count.
C17_FastestComplete ==
  ( /\ pc = "done"
    /\ solvingMethod = Fastest
    /\ ~Puzzle_isSolved(LayoutWith(0)) ) =>
      \E counts \in { SolvableCounts } :
        counts # {} =>
          /\ solution.defined
          /\ emptyFlasks \in counts
          /\ \A e \in counts : emptyFlasks <= e

\* C17 witness: "fastest" has returned a solution with two empty flasks for an
\* input that cannot be solved with fewer.
C17_Witness ==
  /\ SolveReturnedSolution
  /\ solvingMethod = Fastest
  /\ emptyFlasks = 2
  /\ ~CanReachSolved({ LayoutWith(0) }, {})
  /\ ~CanReachSolved({ LayoutWith(1) }, {})

(***************************************************************************)
(* The searches of the three methods compared at a fixed count.            *)
(***************************************************************************)
\* The while loop of solveUsingPriorityQueueOrStack from the pass that finds acc
\* on: pass after pass until a return, a thrown Error or the empty stack or queue.
RECURSIVE whileLoop(_, _, _)
whileLoop(disc, delta, acc) ==
  IF acc.returned \/ acc.error # "none" \/ Len(acc.stackOrQueue) = 0 THEN acc
  ELSE whileLoop(disc, delta,
                 searchPass(disc, delta, acc.stackOrQueue, acc.visited,
                            acc.metricMap))

\* solveUsingStack(puzzle) and solveUsingPriorityQueue(puzzle, tolerance) as a
\* whole, for the search a method runs: returned tells a move list (solution)
\* from undefined.
solveUsing(search, fl) ==
  whileLoop(search.discipline, search.maxAllowedMetricDelta,
            [visited |-> { Fingerprint(fl) },
             stackOrQueue |-> << initialStep(search.discipline, fl) >>,
             metricMap |-> EmptyMap, returned |-> FALSE,
             solution |-> << >>, error |-> "none"])

SolvedByTransfusions(e) ==
  \E f \in { solveUsing(searchFor(Fastest), LayoutWith(e)) } :
    /\ f.returned
    /\ \E r \in { Replay(LayoutWith(e), f.solution) } :
         r.error = "none" /\ Puzzle_isSolved(r.flasks)

\* C18: under "shortest" and "balanced", when the input is not solved and a
\* solved layout can be reached by legal transfusions with some count of
\* DefaultEmptyFlasksNumber .. MaxEmptyFlasksNumber empty flasks, solve returns
\* a solution.
C18_QueueSearchesComplete ==
  ( /\ pc = "done"
    /\ solvingMethod \in { Shortest, Balanced }
    /\ ~Puzzle_isSolved(LayoutWith(0))
    /\ \E k \in 0..(MaxEmptyFlasksNumber - DefaultEmptyFlasksNumber) :
         SolvedByTransfusions(MaxEmptyFlasksNumber - k) ) =>
      solution.defined

(***************************************************************************)
(* The order in which the priority queue gives its steps out.              *)
(***************************************************************************)
\* The step the queue gave out last.
LastRemoved == removed[Len(removed)]

\* A pass of the while loop of the queue search is being taken.
QueuePass ==
  /\ pc = "search"
  /\ discipline = "queue"
  /\ Len(stackOrQueue) > 0
  /\ Len(removed') = Len(removed) + 1

\* The step a pass takes is a step of the queue with the fewest transfusions and,
\* among those, the highest metric.
RemovesTheBest ==
  QueuePass =>
    /\ \E k \in 1..Len(stackOrQueue) :
         /\ stackOrQueue[k].puzzle = LastRemoved'.puzzle
         /\ Len(stackOrQueue[k].transfusions) = LastRemoved'.moves
         /\ stackOrQueue[k].metric = LastRemoved'.metric
    /\ \A k \in 1..Len(stackOrQueue) :
         \/ Len(stackOrQueue[k].transfusions) > LastRemoved'.moves
         \/ /\ Len(stackOrQueue[k].transfusions) = LastRemoved'.moves
            /\ stackOrQueue[k].metric <= LastRemoved'.metric

\* The steps given out so far came in shells of the number of transfusions: the
\* numbers never decrease along removed, and all steps of a number were put in
\* the queue before the first step of that number was given out.
RemovedInShells ==
  discipline = "queue" =>
    /\ \A r \in 1..(Len(removed) - 1) : removed[r].moves <= removed[r + 1].moves
    /\ \A r \in 1..Len(removed) : \A h \in 1..Len(held) :
         held[h].moves = removed[r].moves => h <= removed[r].onHold

\* C20: in the priority discipline the step removed from the queue has the
\* smallest number of moves among the steps in the queue and, among those, the
\* largest metric; the numbers of moves of the steps removed one after another
\* never decrease; and every step of d moves is inserted before any step of d
\* moves is removed.
C20_PriorityDiscipline ==
  /\ [][RemovesTheBest]_vars
  /\ [](RemovedInShells)

\* C20 witness: the queue has given out at least two steps, and it still holds a
\* step with as many moves as the step given out last and a lower metric.
C20_Witness ==
  /\ pc = "search"
  /\ discipline = "queue"
  /\ Len(removed) >= 2
  /\ \E k \in 1..Len(stackOrQueue) :
       /\ Len(stackOrQueue[k].transfusions) = LastRemoved.moves
       /\ stackOrQueue[k].metric < LastRemoved.metric

(***************************************************************************)
(* The admission filter of the queue search and its table metricMap.       *)
(***************************************************************************)
\* The metrics of the steps of d transfusions that have passed the filter: the
\* steps put in the queue so far (the first step passes once it is taken out).
PassedMetrics(d) ==
  { calculateSolutionMetric(held[h].puzzle) :
      h \in { g \in 1..Len(held) : held[g].moves = d /\ (g > 1 \/ Len(removed) > 0) } }

\* metricMap has an entry exactly for the numbers of transfusions of the steps
\* that passed the filter, and the entry is the highest of their metrics.
TableIsBestPassed ==
  discipline = "queue" =>
    /\ DOMAIN metricMap =
         { held[h].moves : h \in { g \in 1..Len(held) : g > 1 \/ Len(removed) > 0 } }
    /\ \A d \in DOMAIN metricMap :
         /\ metricMap[d] \in PassedMetrics(d)
         /\ \A m \in PassedMetrics(d) : m <= metricMap[d]

\* A step was put in the queue only with a metric within the tolerance of the
\* metric of every step of as many transfusions that had passed before it.
PassedWithinTolerance ==
  discipline = "queue" =>
    \A h1 \in 1..Len(held) : \A h2 \in (h1 + 1)..Len(held) :
      held[h1].moves = held[h2].moves =>
        calculateSolutionMetric(held[h1].puzzle)
          <= calculateSolutionMetric(held[h2].puzzle) + maxAllowedMetricDelta

\* During a search no entry of metricMap is taken away or lowered, and the step
\* a pass takes from the queue is expanded only when its metric is within the
\* tolerance of the entry for its number of transfusions; a step that is
\* expanded leaves an entry no lower than its metric.
TableOnlyRises ==
  (pc = "search" /\ discipline = "queue" /\ Len(removed') = Len(removed) + 1) =>
    /\ \A d \in DOMAIN metricMap :
         d \in DOMAIN metricMap' /\ metricMap[d] <= metricMap'[d]
    /\ \E r \in { removed'[Len(removed')] } :
         IF r.moves \in DOMAIN metricMap
            /\ metricMap[r.moves] > r.metric + maxAllowedMetricDelta
           THEN metricMap' = metricMap /\ visited' = visited /\ held' = held
           ELSE r.moves \in DOMAIN metricMap' /\ metricMap'[r.moves] >= r.metric

\* C21: in the priority discipline a step of d moves passes the admission filter
\* only if its metric plus the tolerance is at least the best metric recorded so
\* far for d; the entry for d is made by the first step filtered at d and raised
\* when a passing step has a higher metric, so it never decreases and always
\* equals the highest metric among the steps that passed the filter at d.
C21_AdmissionFilter ==
  /\ [](TableIsBestPassed /\ PassedWithinTolerance)
  /\ [][TableOnlyRises]_vars

\* C21 witness: in a queue search an entry of metricMap has been raised above the
\* metric of the first step that passed at its number of moves, and a step taken
\* from the queue has been dropped for a metric below the tolerance.
C21_Witness ==
  /\ pc = "search"
  /\ discipline = "queue"
  /\ \E h \in 2..Len(held) :
       /\ \A g \in 1..(h - 1) : held[g].moves # held[h].moves
       /\ calculateSolutionMetric(held[h].puzzle) < metricMap[held[h].moves]
  /\ Len(removed) > 0
  /\ removed[Len(removed)].metric + maxAllowedMetricDelta
       < metricMap[removed[Len(removed)].moves]

(***************************************************************************)
(* The metric of a layout.                                                 *)
(***************************************************************************)
\* The layers of flask f that have the colour of the layer directly beneath
\* them, counted from the top down.
RECURSIVE SameAsBeneath(_)
SameAsBeneath(f) ==
  IF Len(f) < 2 THEN 0
  ELSE (IF f[Len(f)] = f[Len(f) - 1] THEN 1 ELSE 0) + SameAsBeneath(Front(f))

\* The sum of SameAsBeneath over the flasks of fl, from the last flask on.
RECURSIVE SumSameAsBeneath(_)
SumSameAsBeneath(fl) ==
  IF Len(fl) = 0 THEN 0
  ELSE SameAsBeneath(fl[Len(fl)]) + SumSameAsBeneath(Front(fl))

\* C22: the metric a step of the queue carries is the number of layers, summed
\* over the flasks of its layout, that have the colour of the layer directly
\* beneath them; an empty flask and a flask of one layer contribute 0, a full
\* flask of one colour contributes FlaskCapacity - 1.
C22_MetricCountsEqualPairs ==
  discipline = "queue" =>
    \A k \in 1..Len(stackOrQueue) :
      \E st \in { stackOrQueue[k] } :
        /\ st.metric = SumSameAsBeneath(st.puzzle)
        /\ \A g \in 1..Len(st.puzzle) :
             \E f \in { st.puzzle[g] } :
               /\ Len(f) <= 1 => calculateSolutionMetric(<< f >>) = 0
               /\ (Flask_isFull(f) /\ OneColour(f)) =>
                    calculateSolutionMetric(<< f >>) = FlaskCapacity - 1
               /\ st.metric = calculateSolutionMetric(<< f >>)
                    + calculateSolutionMetric(
                        SubSeq(st.puzzle, 1, g - 1)
                          \o SubSeq(st.puzzle, g + 1, Len(st.puzzle)))

\* C22 witness: the queue holds a step reached by a transfusion whose layout has
\* a full flask of one colour, a flask of one layer and an empty flask, and
\* whose metric counts a layer of yet another flask.
C22_Witness ==
  /\ discipline = "queue"
  /\ pc = "search"
  /\ \E k \in 1..Len(stackOrQueue) :
       \E st \in { stackOrQueue[k] } :
         /\ Len(st.transfusions) > 0
         /\ st.metric >= FlaskCapacity
         /\ \E g \in 1..Len(st.puzzle) :
              Flask_isFull(st.puzzle[g]) /\ OneColour(st.puzzle[g])
         /\ \E g \in 1..Len(st.puzzle) : Len(st.puzzle[g]) = 1
         /\ \E g \in 1..Len(st.puzzle) : Len(st.puzzle[g]) = 0

(***************************************************************************)
(* Rows longer than the capacity, checked under SpecSolveAny.              *)
(***************************************************************************)
\* Some row of the input has more layers than a flask takes.
OverLongRow == \E k \in 1..Len(layersMatrix) : Len(layersMatrix[k]) > FlaskCapacity

\* No search has started: nothing was put on a stack or in a queue, nothing was
\* taken from one, no fingerprint was kept and no count was tried.
NoSearchYet ==
  /\ stackOrQueue = << >>
  /\ held = << >>
  /\ removed = << >>
  /\ tried = << >>
  /\ visited = {}
  /\ emptyFlasks = DefaultEmptyFlasksNumber

\* C23: building a layout with a row longer than FlaskCapacity throws and keeps
\* no truncated flask; solve on a matrix with such a row throws before any
\* search step, under every method, and returns neither a solution nor the
\* no-solution result; on any other matrix it does not throw.
C23_OverLongRowFails ==
  /\ OverLongRow =>
       /\ pc \in { "loop", "error" }
       /\ NoSearchYet
       /\ ~solution.defined
       /\ Puzzle_constructor(layersMatrix) = [error |-> "limit", flasks |-> << >>]
  /\ pc = "error" => (OverLongRow /\ thrown = "limit")
  /\ (pc = "loop" /\ clock > 0) => ~OverLongRow

\* C23 witness: solve has thrown under "shortest" on a matrix whose first row has
\* one layer more than a flask takes.
C23_Witness ==
  /\ pc = "error"
  /\ thrown = "limit"
  /\ solvingMethod = Shortest
  /\ Len(layersMatrix) = 2
  /\ Len(layersMatrix[1]) = FlaskCapacity + 1
  /\ clock = 1

(***************************************************************************)
(* Copies and accessor values, checked under SpecStore.                    *)
(***************************************************************************)
\* The layers of the flasks of p and of c, now and after the step.
LayersOfP == ContentOf(heap, refs.p)

LayersOfC == ContentOf(heap, refs.c)

\* A step leaves the flasks of p, and of c, as they are.
KeepsP == ContentOf(heap', refs'.p) = LayersOfP

KeepsC == ContentOf(heap', refs'.c) = LayersOfC

\* What each call may change: copy() makes c a layout with the layers of p and
\* leaves p; a transfusion on one of p and c leaves the other; reading an
\* accessor and changing the value read leave both.
CallsKeepOthers ==
  /\ refs'.op = "copy" => (KeepsP /\ ContentOf(heap', refs'.c) = LayersOfP)
  /\ (refs'.op = "transfuse" /\ refs'.on = "c") => KeepsP
  /\ (refs'.op = "transfuse" /\ refs'.on = "p") => KeepsC
  /\ refs'.op \in { "get", "change" } => (KeepsP /\ KeepsC)
  /\ refs'.op = "get" => ContentOf(heap', refs'.got) =
                           IF refs'.kind = "layers"
                             THEN << heap[refs[refs'.from][refs'.at]] >>
                             ELSE ContentOf(heap, refs[refs'.from])

\* C24: copies are deep and independent: after c = p.copy() a transfusion on c
\* leaves the flasks of p unchanged and a transfusion on p those of c, and
\* changing a value read from layers, flasks or layersMatrix changes neither
\* the flask nor the layout it was read from.
C24_CopiesIndependent == [][CallsKeepOthers]_vars

\* C24 witness: c has been transfused away from p, and the flasks read from one
\* of them have been changed so that they differ from the flasks they were
\* read from.
C24_Witness ==
  /\ refs.copied
  /\ LayersOfC # LayersOfP
  /\ refs.kind = "flasks"
  /\ refs.op = "change"
  /\ Len(refs.got) = Len(refs[refs.from])
  /\ ContentOf(heap, refs.got) # ContentOf(heap, refs[refs.from])
  /\ \E k \in 1..Len(refs.got) : Len(heap[refs.got[k]]) > 0

\* The references held, apart from the record of the last call.
HeldRefs(r) == << r.p, r.c, r.copied, r.got, r.kind, r.from, r.at, r.changed >>

\* C25: isTransfusionValid never mutates, on flasks and on layouts: whatever the
\* pair of indices, in range or not, equal or not, valid or not, every array of
\* the store and every reference is the same after the call as before.
C25_IsTransfusionValidReadsOnly ==
  [][refs'.op = "isTransfusionValid" =>
       (heap' = heap /\ HeldRefs(refs') = HeldRefs(refs))]_vars

\* C25 witness: isTransfusionValid has returned true on the copy after it was
\* transfused away from p.
C25_Witness ==
  /\ refs.op = "isTransfusionValid"
  /\ refs.on = "c"
  /\ refs.value
  /\ LayersOfC # LayersOfP

\* The pair (i, j) names two different flasks of a layout of n flasks.
PairWithin(pair, n) ==
  /\ 0 <= pair[1] /\ pair[1] < n
  /\ 0 <= pair[2] /\ pair[2] < n
  /\ pair[1] # pair[2]

\* C26: every pair (i, j) of the transfusions solve returns with the count e of
\* empty flasks satisfies 0 <= i, j < N + e and i # j, N being the number of
\* rows of layersMatrix.
C26_PairsWithinExtendedLayout ==
  (pc = "done" /\ solution.defined) =>
    \A k \in 1..Len(solution.transfusions) :
      PairWithin(solution.transfusions[k], Len(layersMatrix) + emptyFlasks)

\* C26 witness: solve has returned, with empty flasks added, transfusions of
\* which one pours into the last added flask and another out of an added one.
C26_Witness ==
  /\ pc = "done"
  /\ solution.defined
  /\ emptyFlasks > 0
  /\ \E k \in 1..Len(solution.transfusions) :
       solution.transfusions[k][2] = Len(layersMatrix) + emptyFlasks - 1
  /\ \E k \in 1..Len(solution.transfusions) :
       solution.transfusions[k][1] >= Len(layersMatrix)

\* The k-th pair (i, j) the two for loops try on a layout of n flasks.
PairOf(k, n) == << k \div n, k % n >>

\* The pairs, by their place in the order of the loops, whose transfusion on
\* the puzzle of step is valid and gives a layout not visited before the pass.
NewChildren(step) ==
  { k \in 0..(Len(step.puzzle) * Len(step.puzzle) - 1) :
      LET pair == PairOf(k, Len(step.puzzle))
      IN  /\ Puzzle_isTransfusionValid(step.puzzle, pair[1], pair[2]).value
          /\ Fingerprint(Puzzle_transfuse(step.puzzle, pair[1], pair[2]).flasks)
                \notin visited }

\* Those of them that give a solved layout.
SolvedChildren(step) ==
  { k \in NewChildren(step) :
      Puzzle_isSolved(Puzzle_transfuse(step.puzzle, PairOf(k, Len(step.puzzle))[1],
                                       PairOf(k, Len(step.puzzle))[2]).flasks) }

\* The least number of a set of numbers.
Least(S) == CHOOSE k \in S : \A o \in S : k <= o

\* A pass of the while loop returns exactly when the step it removed passes the
\* filter and has a solved child, with the transfusions of the first such child
\* in the order of the loops; it has then removed one step, and what it added
\* and visited comes from the pairs up to that child.
EndsAtFirstSolvedChild ==
  (pc = "search" /\ Len(stackOrQueue) > 0) =>
    LET got    == getStep(discipline, stackOrQueue)
        n      == Len(got.step.puzzle)
        passes == preliminaryFilter(discipline, maxAllowedMetricDelta, metricMap,
                                    got.step).pass
        solved == SolvedChildren(got.step)
        left   == { got.rest[k] : k \in 1..Len(got.rest) }
    IN  IF passes /\ solved # {}
          THEN /\ pc' = "done"
               /\ solution' =
                    [defined |-> TRUE,
                     transfusions |-> Append(got.step.transfusions,
                                             PairOf(Least(solved), n))]
               /\ Len(removed') = Len(removed) + 1
               /\ \A k \in 1..Len(stackOrQueue') :
                    stackOrQueue'[k] \notin left =>
                      \E o \in NewChildren(got.step) :
                        /\ o < Least(solved)
                        /\ stackOrQueue'[k].transfusions =
                             Append(got.step.transfusions, PairOf(o, n))
               /\ \A f \in visited' \ visited :
                    \E o \in NewChildren(got.step) :
                      /\ o <= Least(solved)
                      /\ f = Fingerprint(Puzzle_transfuse(got.step.puzzle,
                                          PairOf(o, n)[1], PairOf(o, n)[2]).flasks)
          ELSE pc' = "search" /\ solution' = solution

\* A search returns undefined only from the empty stack or queue, and none of
\* its passes has found a solved child.
ReportsNoneOnlyWhenEmpty ==
  (pc = "search" /\ pc' = "loop") =>
    /\ stackOrQueue = << >>
    /\ ~tried[Len(tried)].found
    /\ solution' = Undefined

\* Once a search has returned transfusions nothing is removed or added.
NothingAfterReturn ==
  pc = "done" => (removed' = removed /\ held' = held /\ solution' = solution)

\* C27: a search ends at the first solved child it generates and returns that
\* child's transfusions, generating no further child and removing no further
\* step; it returns no solution only when the stack or queue has emptied and
\* no solved child was generated.
C27_EndsAtFirstSolvedChild ==
  [][EndsAtFirstSolvedChild /\ ReportsNoneOnlyWhenEmpty /\ NothingAfterReturn]_vars

\* C27 witness: a search has returned while steps were left on the stack or in
\* the queue, and the step removed last had a second solved child, later in
\* the order of the loops than the one returned.
C27_Witness ==
  /\ pc = "done"
  /\ solution.defined
  /\ Len(stackOrQueue) > 0
  /\ Len(removed) > 1
  /\ \E k \in 0..(Len(LastRemoved.puzzle) * Len(LastRemoved.puzzle) - 1) :
       LET n    == Len(LastRemoved.puzzle)
           last == Last(solution.transfusions)
       IN  /\ k > last[1] * n + last[2]
           /\ Puzzle_isTransfusionValid(LastRemoved.puzzle, PairOf(k, n)[1],
                                        PairOf(k, n)[2]).value
           /\ Puzzle_isSolved(Puzzle_transfuse(LastRemoved.puzzle, PairOf(k, n)[1],
                                               PairOf(k, n)[2]).flasks)

\* Every step a pass of the while loop puts on the stack or in the queue is the
\* removed step's puzzle after a transfusion that isTransfusionValid accepts
\* on that puzzle, and that transfuse carries out without an Error.
ChildrenFromValidPairs ==
  (pc = "search" /\ Len(stackOrQueue) > 0) =>
    LET got  == getStep(discipline, stackOrQueue)
        left == { got.rest[k] : k \in 1..Len(got.rest) }
    IN  \A k \in 1..Len(stackOrQueue') :
          stackOrQueue'[k] \notin left =>
            LET pair  == Last(stackOrQueue'[k].transfusions)
                valid == Puzzle_isTransfusionValid(got.step.puzzle,
                                                   pair[1], pair[2])
                state == Puzzle_transfuse(got.step.puzzle, pair[1], pair[2])
            IN  /\ valid.error = "none"
                /\ valid.value
                /\ state.error = "none"
                /\ stackOrQueue'[k].puzzle = state.flasks

\* C30: inside a search transfuse is called only on a pair isTransfusionValid
\* has just accepted on the same layers, so that no search, whatever the
\* matrix and the method, ends by the Error of an invalid transfusion or of an
\* index out of bounds.
C30_SearchNeverThrows ==
  /\ [](thrown \notin { "invalid", "bounds" })
  /\ [][ChildrenFromValidPairs]_vars

\* C30 witness: a search that has put steps on the stack or in the queue has
\* removed a step on which some pair in range is not a valid transfusion, a
\* pair of two different flasks among them, and no Error was thrown.
C30_Witness ==
  /\ pc = "search"
  /\ thrown = "none"
  /\ Len(removed) > 1
  /\ Len(held) > 2
  /\ \E i \in 0..(Len(LastRemoved.puzzle) - 1),
        j \in 0..(Len(LastRemoved.puzzle) - 1) :
       /\ i # j
       /\ ~Puzzle_isTransfusionValid(LastRemoved.puzzle, i, j).value
       /\ Puzzle_transfuse(LastRemoved.puzzle, i, j).error = "invalid"

(***************************************************************************)
(* replace-messages.js: the message the bot sent last is replaced by the   *)
(* next one.  A session is read as whether ctx.session exists, the content  *)
(* of its keys other than messageForReplace (0: no other key), and its      *)
(* messageForReplace key.  A Telegram call is awaited: it resolves or       *)
(* rejects in a later step, and markMessageForReplace may run meanwhile.    *)
(***************************************************************************)
MaxMessageId == 2

MaxChatId == 2

MaxSessionValue == 2

\* The messages marked for replacement a session may hold.
Marks ==
  { [present |-> TRUE, type |-> t, id |-> i, chatId |-> c] :
      t \in { MessageType_Text, MessageType_Photo },
      i \in 1..MaxMessageId, c \in 1..MaxChatId }

Sessions ==
  { NoSession } \cup
  { [defined |-> TRUE, rest |-> r, messageForReplace |-> m] :
      r \in 0..MaxSessionValue, m \in { NoMessage } \cup Marks }

\* The arguments after ctx of replaceLastMessage: a text, a text and a
\* keyboard, a photo and its caption, an array of photos.
NewMessages == { "text", "textWithMarkup", "photo", "photos" }

\* typeof newMessage[0]
TypeOfFirst(newMessage) ==
  IF newMessage \in { "text", "textWithMarkup" } THEN "string" ELSE "object"

\* ctx.session?.messageForReplace
messageForReplaceOf(s) == IF s.defined THEN s.messageForReplace ELSE NoMessage

\* A mutant of markMessageForReplace: the session is built anew.
markMessageForReplace_Anew(s, message_id, chat_id) ==
  [defined |-> TRUE, rest |-> 0,
   messageForReplace |-> [present |-> TRUE, type |-> MessageType_Text,
                          id |-> message_id, chatId |-> chat_id]]

\* markMessageForReplace(ctx, messageForReplace): the new ctx.session.
markMessageForReplace(s, message_id, chat_id) ==
  [defined |-> TRUE, rest |-> s.rest,
   messageForReplace |-> [present |-> TRUE, type |-> MessageType_Text,
                          id |-> message_id, chatId |-> chat_id]]

\* The call sendMessageByType makes.
sendMessageByType(type, message) ==
  IF type = MessageType_Photo
    THEN << [method |-> "replyWithMediaGroup", chatId |-> 0, id |-> 0,
             message |-> message] >>
    ELSE << [method |-> "reply", chatId |-> 0, id |-> 0, message |-> message] >>

\* The calls editMessageByType makes, one awaited after the other.
editMessageByType(s, type, message) ==
  LET chatId    == s.messageForReplace.chatId
      messageId == s.messageForReplace.id
  IN  IF type = MessageType_Photo
        THEN << [method |-> "editMessageMedia", chatId |-> chatId,
                 id |-> messageId, message |-> message],
                [method |-> "editMessageCaption", chatId |-> chatId,
                 id |-> messageId, message |-> message] >>
        ELSE << [method |-> "editMessageText", chatId |-> chatId,
                 id |-> messageId, message |-> message] >>

\* A mutant of replaceLastMessage_calls: the new message is always sent.
replaceLastMessage_calls_Sends(s, newMessage) ==
  sendMessageByType(IF TypeOfFirst(newMessage) = "string"
                      THEN MessageType_Text ELSE MessageType_Photo, newMessage)

\* The calls replaceLastMessage(ctx, ...newMessage) makes on the session s, in
\* the order in which it awaits them.
replaceLastMessage_calls(s, newMessage) ==
  LET type == IF TypeOfFirst(newMessage) = "string"
                THEN MessageType_Text ELSE MessageType_Photo
  IN  IF ~messageForReplaceOf(s).present
        THEN sendMessageByType(type, newMessage)
        ELSE IF type = messageForReplaceOf(s).type
          THEN editMessageByType(s, type, newMessage)
          ELSE << [method |-> "deleteMessage", chatId |-> 0,
                   id |-> s.messageForReplace.id, message |-> "none"] >>
               \o sendMessageByType(type, newMessage)

\* A mutant of deleteMessageForReplace: the key stays.
deleteMessageForReplace_Kept(s) == s

\* delete ctx.session?.messageForReplace
deleteMessageForReplace(s) ==
  IF s.defined THEN [s EXCEPT !.messageForReplace = NoMessage] ELSE s

\* The bot's context before replaceLastMessage is called: any session, or none.
InitBot ==
  /\ flasks = << >>
  /\ call = NoCall
  /\ SolverIdle
  /\ StoreIdle
  /\ session \in Sessions
  /\ bot = NoReplace
  /\ handler = NoRequests

\* markMessageForReplace(ctx, message)
MarkMessageForReplace ==
  /\ \E message_id \in 1..MaxMessageId, chat_id \in 1..MaxChatId :
       session' = markMessageForReplace(session, message_id, chat_id)
  /\ bot' = bot
  /\ UNCHANGED << puzzleVars, solverVars, storeVars, handler >>

\* replaceLastMessage(ctx, ...newMessage) up to its first await: the branch is
\* chosen and the first call made.
ReplaceLastMessage ==
  /\ bot.pc \in { "idle", "returned", "failed" }
  /\ \E newMessage \in NewMessages :
       \E plan \in { replaceLastMessage_calls(session, newMessage) } :
         bot' = [pc |-> "await", newMessage |-> newMessage,
                 before |-> messageForReplaceOf(session),
                 calls |-> << plan[1] >>, plan |-> plan]
  /\ session' = session
  /\ UNCHANGED << puzzleVars, solverVars, storeVars, handler >>

\* The awaited call resolves: the next call is made or, after the last one,
\* the mark is deleted and the message returned.
Resolve ==
  /\ bot.pc = "await"
  /\ IF Len(bot.calls) < Len(bot.plan)
       THEN /\ bot' = [bot EXCEPT !.calls = Append(@, bot.plan[Len(@) + 1])]
            /\ session' = session
       ELSE /\ bot' = [bot EXCEPT !.pc = "returned"]
            /\ session' = deleteMessageForReplace(session)
  /\ UNCHANGED << puzzleVars, solverVars, storeVars, handler >>

\* The awaited call rejects: replaceLastMessage rejects.
Reject ==
  /\ bot.pc = "await"
  /\ bot' = [bot EXCEPT !.pc = "failed"]
  /\ session' = session
  /\ UNCHANGED << puzzleVars, solverVars, storeVars, handler >>

NextBot == MarkMessageForReplace \/ ReplaceLastMessage \/ Resolve \/ Reject

SpecBot == InitBot /\ [][NextBot]_vars

\* The calls that send a message, and those that edit one.
IsSend(c) == c.method \in { "reply", "replyWithMediaGroup" }

IsEdit(c) ==
  c.method \in { "editMessageText", "editMessageMedia", "editMessageCaption" }

\* The type of the new message of the call under way.
NewType ==
  IF TypeOfFirst(bot.newMessage) = "string"
    THEN MessageType_Text ELSE MessageType_Photo

\* The calls made so far, and all of them once the call has returned, are those
\* the mark found at the call asks for.
ActsOnTheMark ==
  bot.pc \in { "await", "returned" } =>
    IF ~bot.before.present
      THEN /\ Len(bot.calls) = 1
           /\ IsSend(bot.calls[1])
           /\ bot.calls[1].message = bot.newMessage
      ELSE IF bot.before.type = NewType
        THEN /\ Len(bot.calls) >= 1
             /\ \A k \in 1..Len(bot.calls) :
                  /\ IsEdit(bot.calls[k])
                  /\ bot.calls[k].id = bot.before.id
                  /\ bot.calls[k].chatId = bot.before.chatId
                  /\ bot.calls[k].message = bot.newMessage
        ELSE /\ bot.calls[1].method = "deleteMessage"
             /\ bot.calls[1].id = bot.before.id
             /\ Len(bot.calls) <= 2
             /\ Len(bot.calls) = 2 =>
                  (IsSend(bot.calls[2]) /\ bot.calls[2].message = bot.newMessage)
             /\ bot.pc = "returned" => Len(bot.calls) = 2

\* A call starts from the mark the session holds at that moment.
StartsFromTheMark ==
  (bot.pc # "await" /\ bot'.pc = "await") =>
    bot'.before = messageForReplaceOf(session)

\* C28: replaceLastMessage acts on the session's mark: with no message marked
\* it sends the new message; with a marked message of the new message's type
\* it edits the marked message and sends nothing; with a marked message of
\* another type it deletes the marked message and then sends the new one.
C28_ActionFromMark == [](ActsOnTheMark) /\ [][StartsFromTheMark]_vars

\* C28 witness: a call that found a photo marked has returned after deleting
\* it and then sending a text.
C28_Witness ==
  /\ bot.pc = "returned"
  /\ bot.before.present
  /\ bot.before.type = MessageType_Photo
  /\ bot.newMessage = "text"
  /\ Len(bot.calls) = 2
  /\ bot.calls[1].method = "deleteMessage"
  /\ bot.calls[2].method = "reply"

\* A step of a replaceLastMessage call, and a step that is none.
CallStep == bot' # bot

\* What a step may do to the session: a returning call leaves no mark, every
\* step of a call keeps the other keys and adds no mark, and a mark appears or
\* changes only by markMessageForReplace, which keeps the other keys.
SessionKept ==
  /\ (CallStep /\ bot'.pc = "returned") =>
       ~messageForReplaceOf(session').present
  /\ CallStep =>
       /\ session'.defined = session.defined
       /\ session'.rest = session.rest
       /\ session'.messageForReplace \in { session.messageForReplace, NoMessage }
       /\ bot'.pc # "returned" => session' = session
  /\ ~CallStep =>
       /\ session'.rest = session.rest
       /\ session' # session =>
            /\ session'.defined
            /\ session'.messageForReplace.present
            /\ session'.messageForReplace.type = MessageType_Text

\* C29: after a replaceLastMessage call that succeeded the session holds no
\* marked message, whichever branch was taken, and its other keys are as
\* before; a message is marked again only by markMessageForReplace, which
\* replaces an earlier mark and keeps the other keys.
C29_MarkClearedKeysKept == [][SessionKept]_vars

\* C29 witness: a call that edited the marked message has returned, the session
\* has other keys and no mark.
C29_Witness ==
  /\ bot.pc = "returned"
  /\ bot.before.present
  /\ bot.before.type = NewType
  /\ session.defined
  /\ session.rest > 0
  /\ ~session.messageForReplace.present

\* The transfusions of every step on the stack or in the queue, carried out one
\* after the other on the puzzle the search started from, are all valid and
\* give the puzzle of the step; so do those solve returns.
PathsReplay ==
  /\ pc = "search" =>
       \A k \in 1..Len(stackOrQueue) :
         /\ \A m \in 1..Len(stackOrQueue[k].transfusions) :
              LET at == Replay(ExtendedLayout,
                               SubSeq(stackOrQueue[k].transfusions, 1, m - 1))
              IN  Puzzle_isTransfusionValid(at.flasks,
                    stackOrQueue[k].transfusions[m][1],
                    stackOrQueue[k].transfusions[m][2]).value
         /\ Replay(ExtendedLayout, stackOrQueue[k].transfusions) =
              [error |-> "none", flasks |-> stackOrQueue[k].puzzle]
  /\ SolveReturnedSolution =>
       Replay(ExtendedLayout, solution.transfusions).error = "none"

\* The steps a pass adds, and the transfusions it returns, are those of the
\* step it removed with one pair (i, j) appended.
ChildExtendsParent ==
  (pc = "search" /\ Len(stackOrQueue) > 0) =>
    LET got   == getStep(discipline, stackOrQueue)
        left  == { got.rest[k] : k \in 1..Len(got.rest) }
        n     == Len(got.step.puzzle)
        pairs == (0..(n - 1)) \X (0..(n - 1))
    IN  /\ \A k \in 1..Len(stackOrQueue') :
             stackOrQueue'[k] \notin left =>
               \E pair \in pairs :
                 stackOrQueue'[k].transfusions =
                   Append(got.step.transfusions, pair)
        /\ solution' # solution =>
             \E pair \in pairs :
               solution'.transfusions = Append(got.step.transfusions, pair)

\* C31: path consistency: the transfusions of every step the search creates,
\* replayed as valid transfusions from the start layout, give exactly the
\* step's puzzle, and they are the transfusions of the step it was made from
\* with the one pair (i, j) appended.
C31_PathConsistency == [](PathsReplay) /\ [][ChildExtendsParent]_vars

\* C31 witness: a step of three transfusions or more is on the stack or in the
\* queue of a search with empty flasks added.
C31_Witness ==
  /\ pc = "search"
  /\ emptyFlasks > 0
  /\ \E k \in 1..Len(stackOrQueue) : Len(stackOrQueue[k].transfusions) >= 3

\* The layouts one valid transfusion away from fl, in the order of the loops,
\* up to and with the first solved one that is not among the layouts seen.
RECURSIVE ChildrenFrom(_, _, _)
ChildrenFrom(fl, k, seen) ==
  IF k >= Len(fl) * Len(fl) THEN << >>
  ELSE IF ~Puzzle_isTransfusionValid(fl, PairOf(k, Len(fl))[1],
                                     PairOf(k, Len(fl))[2]).value
    THEN ChildrenFrom(fl, k + 1, seen)
  ELSE
    LET child == Puzzle_transfuse(fl, PairOf(k, Len(fl))[1],
                                  PairOf(k, Len(fl))[2]).flasks
    IN  IF Fingerprint(child) \notin seen /\ Puzzle_isSolved(child)
          THEN << child >>
          ELSE << child >>
               \o ChildrenFrom(fl, k + 1, seen \cup { Fingerprint(child) })

\* An expansion leaves the layers of the flasks of the expanded puzzle and of
\* the other puzzle held as they were, and its children hold, in Flask objects
\* of their own, the layouts one valid transfusion away.
ExpansionKeepsLayouts ==
  refs'.op = "expand" =>
    /\ KeepsP
    /\ KeepsC
    /\ refs'.p = refs.p /\ refs'.c = refs.c
    /\ [m \in 1..Len(refs'.got) |-> ContentOf(heap', refs'.got[m])] =
         ChildrenFrom(ContentOf(heap, refs[refs'.on]), 0,
                      { Fingerprint(ContentOf(heap, refs[refs'.on])) })
    /\ \A m \in 1..Len(refs'.got) : \A k \in 1..Len(refs'.got[m]) :
         /\ \A o \in 1..Len(refs.p) : refs'.got[m][k] # refs.p[o]
         /\ \A o \in 1..Len(refs.c) : refs'.got[m][k] # refs.c[o]

\* C32: expanding a step does not change the step's own layout: each child is
\* made by a transfusion on a deep copy, so that after all children are made
\* the layout of the step and those of the other steps held are what they
\* were before.
C32_ExpansionKeepsNode == [][ExpansionKeepsLayouts]_vars

\* C32 witness: a puzzle with a copy that was transfused away from it has been
\* expanded into two children or more, each differing from it.
C32_Witness ==
  /\ refs.op = "expand"
  /\ refs.error = "none"
  /\ refs.copied
  /\ LayersOfC # LayersOfP
  /\ Len(refs.got) >= 2
  /\ \A m \in 1..Len(refs.got) :
       ContentOf(heap, refs.got[m]) # ContentOf(heap, refs[refs.on])

\* A pass of the while loop of the stack search is being taken.
StackPass ==
  /\ pc = "search"
  /\ discipline = "stack"
  /\ Len(stackOrQueue) > 0
  /\ Len(removed') = Len(removed) + 1

\* The places in held of the steps pushed and not yet taken.
NotYetTaken ==
  { k \in 1..Len(held) :
      \A r \in 1..Len(removed) : removed[r].puzzle # held[k].puzzle }

\* For each pair, by its place in the order of the loops, that is valid on fl
\* and gives a layout not visited before the pass: that layout's fingerprint.
FingerprintsFrom(fl) ==
  [k \in NewChildren([puzzle |-> fl]) |->
     Fingerprint(Puzzle_transfuse(fl, PairOf(k, Len(fl))[1],
                                  PairOf(k, Len(fl))[2]).flasks)]

\* The pairs that give a child: those whose layout no earlier pair gives.
ChildPairs(fp) ==
  { k \in DOMAIN fp : \A o \in DOMAIN fp : o < k => fp[o] # fp[k] }

\* The numbers of S in ascending order.
Ascending(S) ==
  [a \in 1..Cardinality(S) |->
     CHOOSE k \in S : Cardinality({ o \in S : o < k }) = a - 1]

\* The stack search takes the step pushed last among those not yet taken, and,
\* unless it returns, pushes every child of it, in the ascending order of
\* (i, j), on top of the steps that were there.
TakesNewestPushesAll ==
  StackPass =>
    \A taken \in { removed'[Len(removed')].puzzle } :
      \A nth \in { Ascending(ChildPairs(FingerprintsFrom(taken))) } :
        /\ NotYetTaken # {}
        /\ taken =
             held[CHOOSE k \in NotYetTaken : \A o \in NotYetTaken : o <= k].puzzle
        /\ pc' = "search" =>
             /\ Len(stackOrQueue') = Len(stackOrQueue) - 1 + Len(nth)
             /\ SubSeq(stackOrQueue', 1, Len(stackOrQueue) - 1) =
                  SubSeq(stackOrQueue, 1, Len(stackOrQueue) - 1)
             /\ \A a \in 1..Len(nth) :
                  \A pair \in { PairOf(nth[a], Len(taken)) } :
                    \A child \in { Puzzle_transfuse(taken, pair[1],
                                                     pair[2]).flasks } :
                      /\ stackOrQueue'[Len(stackOrQueue) - 1 + a].puzzle = child
                      /\ Last(stackOrQueue'[Len(stackOrQueue) - 1
                                            + a].transfusions) = pair
                      /\ held'[Len(held) + a].puzzle = child

\* C33: in the depth-first search the filter passes every step, and the step
\* expanded next is the one pushed last among those not yet expanded: the
\* children of a step are generated in ascending order of (i, j), i outer, and
\* explored in the reverse order, before any step pushed earlier.
C33_DepthFirstOrder == [][TakesNewestPushesAll]_vars

\* C33 witness: the stack search has taken two steps of the same number of
\* transfusions pushed one right after the other, the later one first.
C33_Witness ==
  /\ discipline = "stack"
  /\ pc = "search"
  /\ \E k \in 1..(Len(held) - 1) :
       /\ held[k].moves = held[k + 1].moves
       /\ \E a \in 1..Len(removed), b \in 1..Len(removed) :
            /\ a < b
            /\ removed[a].puzzle = held[k + 1].puzzle
            /\ removed[b].puzzle = held[k].puzzle

\* Every step the queue search has expanded has a metric within the tolerance
\* of that of every step of as many transfusions put in the queue.
ExpandedNearBestOfAll ==
  discipline = "queue" =>
    \A r \in 1..Len(removed) : \A h \in 1..Len(held) :
      (removed[r].expanded /\ held[h].moves = removed[r].moves) =>
        calculateSolutionMetric(held[h].puzzle)
          <= removed[r].metric + maxAllowedMetricDelta

\* Every child a pass of the queue search generates and does not return has at
\* most the metric of some step of as many transfusions put in the queue, so
\* that the highest metric of the steps put in the queue is that of all steps
\* generated.
GeneratedBelowQueued ==
  QueuePass =>
    \A taken \in { removed'[Len(removed')] } :
      taken.expanded =>
        \A k \in ChildPairs(FingerprintsFrom(taken.puzzle)) :
          \A child \in { Puzzle_transfuse(taken.puzzle,
                            PairOf(k, Len(taken.puzzle))[1],
                            PairOf(k, Len(taken.puzzle))[2]).flasks } :
            Puzzle_isSolved(child) \/
              \E h \in 1..Len(held') :
                /\ held'[h].moves = taken.moves + 1
                /\ calculateSolutionMetric(child)
                     <= calculateSolutionMetric(held'[h].puzzle)

\* C34: in the queue search with tolerance t every step of d transfusions that
\* is expanded has a metric of at least M(d) - t, M(d) being the highest
\* metric of the steps of d transfusions the search generates; with t = 0 only
\* steps of the highest metric of their number of transfusions are expanded.
C34_ExpandedWithinTolerance ==
  [](ExpandedNearBestOfAll) /\ [][GeneratedBelowQueued]_vars

\* C34 witness: a queue search has expanded a step and has not expanded
\* another step of as many transfusions, taken later, whose metric is lower
\* by more than the tolerance.
C34_Witness ==
  /\ discipline = "queue"
  /\ \E r \in 1..Len(removed) : \E o \in 1..Len(removed) :
       /\ r < o
       /\ removed[r].expanded
       /\ ~removed[o].expanded
       /\ removed[o].moves = removed[r].moves
       /\ removed[o].metric + maxAllowedMetricDelta < removed[r].metric

\* The layouts on the way of the transfusions moves from fl: fl and the layout
\* after each transfusion.
LayoutsAlong(fl, moves) ==
  [k \in 1..(Len(moves) + 1) |-> Replay(fl, SubSeq(moves, 1, k - 1)).flasks]

\* C35: the layouts along the transfusions solve returns, the start layout
\* and the layout after each transfusion, are pairwise different as multisets
\* of flasks: no layout, and no reordering of its flasks, comes twice.
C35_PathLayoutsDistinct ==
  SolveReturnedSolution =>
    \A along \in { LayoutsAlong(ExtendedLayout, solution.transfusions) } :
      \A a \in 1..Len(along), b \in 1..Len(along) :
        a < b => ~SameFlasks(along[a], along[b])

\* C35 witness: solve has returned four transfusions or more, and some layout
\* on their way has a valid transfusion that only reorders the flasks of a
\* layout of the way.
C35_Witness ==
  /\ SolveReturnedSolution
  /\ Len(solution.transfusions) >= 4
  /\ \E along \in { LayoutsAlong(ExtendedLayout, solution.transfusions) } :
       \E a \in 1..Len(along), b \in 1..Len(along) :
         /\ a <= b
         /\ \E next \in Successors(along[b]) :
              next # along[a] /\ SameFlasks(next, along[a])

\* The layout of layersMatrix is solved before any transfusion.
StartIsSolved == Puzzle_isSolved(Puzzle_constructor(layersMatrix).flasks)

\* C36: the search never tests the start layout for being solved: the
\* transfusions solve returns are one at least, and for a layersMatrix that is
\* solved already every search, at every count of empty flasks and for each
\* of the three methods, returns undefined, and solve returns no solution
\* after the last count.
C36_SolvedStartFindsNothing ==
  /\ SolveReturnedSolution => Len(solution.transfusions) >= 1
  /\ StartIsSolved =>
       /\ ~solution.defined
       /\ \A k \in 1..Len(tried) : ~tried[k].found
       /\ pc = "done" =>
            /\ emptyFlasks = MaxEmptyFlasksNumber + 1
            /\ [k \in 1..Len(tried) |-> tried[k].count] =
                 [k \in 1..(MaxEmptyFlasksNumber - DefaultEmptyFlasksNumber + 1)
                    |-> DefaultEmptyFlasksNumber + k - 1]

\* C36 witness: solve has returned no solution for a layersMatrix of two full
\* flasks of one colour each, after a search with empty flasks that took steps.
C36_Witness ==
  /\ pc = "done"
  /\ StartIsSolved
  /\ Len(layersMatrix) = 2
  /\ \A k \in 1..Len(layersMatrix) : Len(layersMatrix[k]) = FlaskCapacity
  /\ ~solution.defined
  /\ Len(removed) >= 1
  /\ Cardinality(visited) = 1


\* ---------------------------------------------------------------------------
\* The solve action handler of the bot (solving-loop.js), and the two other
\* handlers that write the puzzle data of the session (index.js).
\* ---------------------------------------------------------------------------

\* The most progress edits after an outcome that are counted.
MaxProgressEdits == 1

\* The outcomes of the worker: a message with a solution, a message without
\* one, or an 'error' event.
WorkerMessages == { "solution", "notFound" }

\* The guard of the handler (line 224): the three keys are in the session.
hasPuzzleData(h) == PuzzleData \subseteq h.data

\* The handler up to its first await (lines 223-229): without the puzzle data
\* it returns, otherwise sendLiveMessage is called and awaited. A timer of
\* an earlier call that was set and has not run, or was never cleared, stays.
solveAction(h, method, format) ==
  LET fresh == [NoHandler(h.data) EXCEPT
                  !.method = method, !.format = format,
                  !.leaked = h.leaked \/ h.interval = "running",
                  !.late = h.late,
                  !.pending = h.pending,
                  !.retry = (h.outcome = "notFound" /\ h.method # method),
                  !.raised = h.raised]
  IN IF ~hasPuzzleData(h)
       THEN [fresh EXCEPT !.pc = "ignored"]
       ELSE [fresh EXCEPT !.pc = "live", !.intact = TRUE]

\* sendLiveMessage after its await (lines 39-56) and initiateSolving
\* (lines 65-79): the interval is set and the worker started on
\* ctx.session.layersMatrix as it is then.
liveMessageSent(h) ==
  [h EXCEPT !.interval = "running", !.pc = "solving",
            !.workerData = IF hasPuzzleData(h) THEN "data" ELSE "undefined"]

\* sendVisualizedSolution up to its first await (lines 167-175): the puzzle
\* data is read from the session and handed to visualizeSolution
\* (visualizer.js, lines 114-139). The spread of an absent layersMatrix
\* throws. visualizeSolution first adds requiredEmptyFlasksNumber to the last
\* entry of imageData.flasksInRows, in the object of the session (line 121);
\* when an earlier call has raised it, fullfillImage runs past the flasks of
\* the puzzle and throws (line 125). The replay of the solution (line 130) on
\* the layersMatrix of a puzzle stored while the worker ran throws unless the
\* transfusions fit that puzzle too (fits).
readPuzzleData(h, fits, requiredEmptyFlasksNumber) ==
  LET read == [h EXCEPT !.read = IF h.workerData = "stale" THEN "other"
                                                            ELSE "data",
                        !.raised = @ \/ requiredEmptyFlasksNumber > 0]
  IN IF ~hasPuzzleData(h)
       THEN [h EXCEPT !.read = "undefined", !.pc = "failed"]
     ELSE IF h.raised \/ (h.workerData = "stale" /\ ~fits)
       THEN [read EXCEPT !.pc = "failed"]
     ELSE read

\* A mutant of onWorkerMessage: the deletion is deferred before the test of
\* the solution.
onWorkerMessage_DeletesFirst(h, message, fits, requiredEmptyFlasksNumber) ==
  LET cleared == [h EXCEPT !.interval = "cleared", !.outcome = message,
                           !.pending = TRUE, !.pc = "delivering"]
      found   == [cleared EXCEPT !.intact = FALSE]
      read    == IF h.format = "images"
                   THEN readPuzzleData(found, fits, requiredEmptyFlasksNumber)
                   ELSE found
  IN IF message = "notFound" THEN [cleared EXCEPT !.workerData = "none"]
     ELSE [read EXCEPT !.workerData = "none"]

\* The handler after the worker's message (lines 230-249): the interval is
\* cleared; without a solution the not-found message is sent; with one the
\* deletion of the puzzle data is deferred and the solution delivered.
onWorkerMessage(h, message, fits, requiredEmptyFlasksNumber) ==
  LET cleared  == [h EXCEPT !.interval = "cleared", !.outcome = message,
                            !.pc = "delivering"]
      deferred == [cleared EXCEPT !.pending = TRUE, !.intact = FALSE]
      read     == IF h.format = "images"
                    THEN readPuzzleData(deferred, fits,
                                        requiredEmptyFlasksNumber)
                    ELSE deferred
  IN IF message = "notFound" THEN [cleared EXCEPT !.workerData = "none"]
     ELSE [read EXCEPT !.workerData = "none"]

\* An awaited call of the delivery rejects (replaceLastMessage, lines 87,
\* 146, 182 and 184): the handler ends there.
deliveryFailed(h) == [h EXCEPT !.pc = "failed"]

\* The worker's 'error' event (line 77): the awaited promise rejects and the
\* handler ends at line 230. (With its outcome the worker has ended, and its
\* workerData with it.)
onWorkerError(h) ==
  [h EXCEPT !.outcome = "error", !.pc = "failed", !.workerData = "none"]

\* The deferred callback (lines 238-242).
deletePuzzleData(h) ==
  [h EXCEPT !.data = @ \ PuzzleData, !.pending = FALSE, !.raised = FALSE]

\* The cancel action (index.js, lines 101-106): the puzzle data is deleted,
\* under every call of the solve handler that is under way.
cancelAction(h) ==
  [h EXCEPT !.data = @ \ PuzzleData, !.intact = FALSE, !.raised = FALSE]

\* The start_solving action (index.js, lines 65-70): the puzzle data of the
\* analysed image is stored, its imageData a new object; a worker that runs
\* has the layersMatrix of the puzzle before.
startSolving(h) ==
  [h EXCEPT !.data = @ \cup PuzzleData,
            !.raised = FALSE,
            !.workerData = IF h.pc = "solving" /\ @ = "data"
                             THEN "stale" ELSE @]

\* The interval's callback (lines 47-54): one progress edit of the live
\* message, counted when the outcome of its request is known.
updateLiveMessage(h, own) ==
  IF own /\ h.outcome = "unknown"
    THEN h
    ELSE [h EXCEPT !.late = @ + 1]

\* The calls with call r become h: the session, and so its puzzle data, is
\* that of all calls.
WithCall(r, h) ==
  [s \in 1..MaxRequests |->
     IF s = r THEN h
     ELSE [handler[s] EXCEPT !.data = h.data, !.raised = h.raised]]

\* The deferred callback of call r runs: the data is deleted under the other
\* calls too.
WithDeletion(r) ==
  [s \in 1..MaxRequests |->
     IF s = r THEN deletePuzzleData(handler[r]) ELSE cancelAction(handler[s])]

\* The calls that have ended with no timer of theirs left to delete the data.
Ended ==
  { r \in 1..MaxRequests :
      /\ handler[r].pc \in { "idle", "ignored", "done", "failed" }
      /\ ~handler[r].pending }

\* The bot has been launched: no session holds a puzzle.
InitHandler ==
  /\ flasks = << >>
  /\ call = NoCall
  /\ SolverIdle
  /\ StoreIdle
  /\ session = NoSession
  /\ bot = NoReplace
  /\ handler = NoRequests

\* The user presses start_solving: the puzzle is stored in the session.
StartSolving ==
  /\ handler' = [r \in 1..MaxRequests |-> startSolving(handler[r])]
  /\ UNCHANGED << puzzleVars, solverVars, storeVars, session, bot >>

\* A solve action arrives, whatever the earlier calls are doing; it is call r,
\* the first that has ended.
SolveAction ==
  /\ Ended # { }
  /\ \E r \in { CHOOSE m \in Ended : \A o \in Ended : m <= o } :
       \E method \in SolvingMethod, format \in Formats :
         handler' = WithCall(r, solveAction(handler[r], method, format))
  /\ UNCHANGED << puzzleVars, solverVars, storeVars, session, bot >>

\* The user presses a cancel button, whatever the calls are doing.
Cancel ==
  /\ handler' = [r \in 1..MaxRequests |-> cancelAction(handler[r])]
  /\ UNCHANGED << puzzleVars, solverVars, storeVars, session, bot >>

\* The live message of call r has been sent.
LiveMessageSent ==
  /\ \E r \in 1..MaxRequests :
       /\ handler[r].pc = "live"
       /\ handler' = WithCall(r, liveMessageSent(handler[r]))
  /\ UNCHANGED << puzzleVars, solverVars, storeVars, session, bot >>

\* Sending the live message failed: sendLiveMessage rejects before line 47.
LiveMessageFailed ==
  /\ \E r \in 1..MaxRequests :
       /\ handler[r].pc = "live"
       /\ handler' = WithCall(r, [handler[r] EXCEPT !.pc = "failed"])
  /\ UNCHANGED << puzzleVars, solverVars, storeVars, session, bot >>

\* The worker of call r posts its message; a worker started on an absent
\* layersMatrix posts none (solve throws on it).
WorkerMessage ==
  /\ \E r \in 1..MaxRequests :
       /\ handler[r].pc = "solving"
       /\ handler[r].workerData \in { "data", "stale" }
       /\ \E message \in WorkerMessages, fits \in BOOLEAN,
             requiredEmptyFlasksNumber \in
               DefaultEmptyFlasksNumber..MaxEmptyFlasksNumber :
            handler' = WithCall(r, onWorkerMessage(handler[r], message, fits,
                                                   requiredEmptyFlasksNumber))
  /\ UNCHANGED << puzzleVars, solverVars, storeVars, session, bot >>

\* The worker of call r emits 'error'.
WorkerError ==
  /\ \E r \in 1..MaxRequests :
       /\ handler[r].pc = "solving"
       /\ handler' = WithCall(r, onWorkerError(handler[r]))
  /\ UNCHANGED << puzzleVars, solverVars, storeVars, session, bot >>

\* The message with the answer of call r has been sent.
Delivered ==
  /\ \E r \in 1..MaxRequests :
       /\ handler[r].pc = "delivering"
       /\ handler' = WithCall(r, [handler[r] EXCEPT !.pc = "done"])
  /\ UNCHANGED << puzzleVars, solverVars, storeVars, session, bot >>

\* An awaited call of the delivery of call r rejects.
DeliveryFailed ==
  /\ \E r \in 1..MaxRequests :
       /\ handler[r].pc = "delivering"
       /\ handler' = WithCall(r, deliveryFailed(handler[r]))
  /\ UNCHANGED << puzzleVars, solverVars, storeVars, session, bot >>

\* The timer of the deferred deletion of call r fires.
DeferredDelete ==
  /\ \E r \in 1..MaxRequests :
       /\ handler[r].pending
       /\ handler' = WithDeletion(r)
  /\ UNCHANGED << puzzleVars, solverVars, storeVars, session, bot >>

\* An interval of call r, or of an earlier one, that has been set and not
\* cleared fires.
UpdateLiveMessage ==
  /\ \E r \in 1..MaxRequests, own \in BOOLEAN :
       /\ IF own THEN handler[r].interval = "running" ELSE handler[r].leaked
       /\ \E next \in { updateLiveMessage(handler[r], own) } :
            /\ next.late <= MaxProgressEdits
            /\ handler' = WithCall(r, next)
  /\ UNCHANGED << puzzleVars, solverVars, storeVars, session, bot >>

NextHandler ==
  \/ StartSolving
  \/ SolveAction
  \/ Cancel
  \/ LiveMessageSent
  \/ LiveMessageFailed
  \/ WorkerMessage
  \/ WorkerError
  \/ Delivered
  \/ DeliveryFailed
  \/ DeferredDelete
  \/ UpdateLiveMessage

SpecHandler == InitHandler /\ [][NextHandler]_vars

\* C37 as claimed: once the worker's outcome is known, whichever of the three
\* it is, no progress edit of the live message of that request is made.
C37_NoEditAfterOutcome == \A r \in 1..MaxRequests : handler[r].late = 0

\* The puzzle data of the session.
SessionData == handler[1].data

\* The step is one of call r alone: the other calls stay as they are, but for
\* the data of the session.
StepOf(r) ==
  /\ handler'[r] # handler[r]
  /\ \A s \in 1..MaxRequests \ { r } :
       handler'[s] = [handler[s] EXCEPT !.data = handler'[r].data,
                                        !.raised = handler'[r].raised,
                                        !.intact = handler'[s].intact]

\* The step is that of a handler other than the solve handler: no call moves.
StepOfOther ==
  \A r \in 1..MaxRequests :
    handler'[r] = [handler[r] EXCEPT !.data = handler'[r].data,
                                     !.raised = handler'[r].raised,
                                     !.intact = handler'[r].intact,
                                     !.workerData = handler'[r].workerData]

\* The step is a solve action that arrives when call s has ended.
SolveActionOf(s) ==
  /\ StepOf(s)
  /\ s \in Ended
  /\ \E method \in SolvingMethod, format \in Formats :
       handler'[s] = solveAction(handler[s], method, format)

\* The step loses puzzle data only in the cancel handler, or when the timer of
\* a call runs whose worker has found a solution and whose delivery, if in
\* images, has read the session.
DeletedOnlyAfterSolutionRead ==
  (\E key \in SessionData : key \notin SessionData')
    => \/ StepOfOther
       \/ \E r \in 1..MaxRequests :
            /\ StepOf(r)
            /\ handler[r].pending /\ ~handler'[r].pending
            /\ handler[r].outcome = "solution"
            /\ handler[r].format = "images" => handler[r].read # "none"

\* The step in which a call learns the outcome of its worker: on a message
\* without a solution it leaves the data as it is and sets no timer; on a
\* solution to deliver in images it has read the data that is in the session.
OutcomeStepKeepsData ==
  \A r \in 1..MaxRequests :
    (handler[r].outcome = "unknown" /\ handler'[r].outcome # "unknown")
      => /\ SessionData' = SessionData
         /\ handler'[r].outcome # "solution" => ~handler'[r].pending
         /\ (/\ handler'[r].outcome = "solution"
             /\ handler[r].format = "images"
             /\ hasPuzzleData(handler[r]))
              => handler'[r].read =
                   IF handler[r].workerData = "stale" THEN "other" ELSE "data"

\* While no other handler has deleted it, the data a call was made with is in
\* the session until the worker of the call finds a solution: no step of the
\* call on the way to another outcome, or after it, deletes it; and with a
\* not-found message sent the call is such a one unless another handler has
\* deleted the data.
NoSolutionPathKeepsData ==
  \A r \in 1..MaxRequests :
    handler[r].intact
      => (handler[r].outcome # "solution" /\ hasPuzzleData(handler[r]))

\* A solve action that arrives after a call has sent its not-found message,
\* with no other handler having deleted the data under that call, is
\* processed.
RetryIsProcessed ==
  \A s \in 1..MaxRequests :
    (/\ \E r \in 1..MaxRequests :
          /\ handler[r].outcome = "notFound"
          /\ handler[r].pc = "done"
          /\ handler[r].intact
     /\ SolveActionOf(s))
      => handler'[s].pc = "live"

\* No timer of a call is set unless its worker has found a solution, and when
\* the answer is in images, not before the delivery has read the session.
TimerOnlyAfterSolutionRead ==
  \A r \in 1..MaxRequests :
    /\ handler[r].outcome \in { "notFound", "error" } => ~handler[r].pending
    /\ (/\ handler[r].pending
        /\ handler[r].outcome = "solution"
        /\ handler[r].format = "images") => handler[r].read # "none"

\* C38: in a call of the solve handler the puzzle data leaves the session only
\* by the deferred deletion of a call whose worker found a solution, and for
\* the answer in images only after the delivery of that call has read the
\* session; the path without a solution deletes nothing and sets no timer, so
\* that the data it was called with is still in the session and a solve action
\* that follows is processed, not ignored. (Another handler may delete the
\* data meanwhile: the cancel action, or the timer of another call.)
C38_DataDeletedOnlyAfterSolution ==
  /\ [](TimerOnlyAfterSolutionRead /\ NoSolutionPathKeepsData)
  /\ [][/\ DeletedOnlyAfterSolutionRead
        /\ OutcomeStepKeepsData
        /\ RetryIsProcessed]_vars

\* C38 witness: a retry with another method after a request without a
\* solution has been processed and has found a solution, its answer in images
\* has read the data and the deferred deletion has run.
C38_Witness ==
  \E r \in 1..MaxRequests :
    /\ handler[r].retry
    /\ handler[r].outcome = "solution"
    /\ handler[r].format = "images"
    /\ handler[r].read = "data"
    /\ ~handler[r].pending
    /\ handler[r].data = { }

=============================================================================
